---- MODULE Spec2Model ----
(***************************************************************************)
(* Content repository and archival engine of 100kwhy_wechat_mp.            *)
(*                                                                         *)
(* The relational store (tables articles and tools), the upsert-based      *)
(* archival operations of DatabaseWriteService, the view-count counters of *)
(* DatabaseDataService and the JSON export of WeeklyBackupService.         *)
(*                                                                         *)
(* Conventions of the model                                                *)
(*   - a Python dict is a TLA+ function whose DOMAIN is the set of keys    *)
(*     present, so dict.get(k, d) distinguishes an absent key from a       *)
(*     present one;                                                        *)
(*   - a url is a sequence of one-character strings, so that str.strip()   *)
(*     is computed and not assumed;                                        *)
(*   - an ISO-8601 timestamp is a natural number (the strings order as the *)
(*     instants do); NoTime is Python's None for a timestamp;              *)
(*   - a table is the sequence of its rows in id order;                    *)
(*   - the audit columns created_at_db / updated_at_db are written by the  *)
(*     code and read by none of the operations modelled here: they are not *)
(*     part of the rows.                                                   *)
(***************************************************************************)
EXTENDS Integers, Sequences, FiniteSets, TLC

VARIABLES
    articles,      \* table articles: sequence of Article rows, in id order
    tools,         \* table tools: sequence of Tool rows, in id order
    articleFiles,  \* data/articles/<name>.json : name -> list of dicts
    toolFiles,     \* data/tools/<name>.json    : name -> list of dicts
    now,           \* the value datetime.now() returned last
    last,          \* the last call: operation, arguments, result
    pre,           \* the stores as they were before the last call
    backup,        \* the run of backup_to_github and the git repository
    sessions       \* the relational calls in flight, each in its own session

vars == <<articles, tools, articleFiles, toolFiles, now, last, pre, backup, sessions>>

-----------------------------------------------------------------------------
(* Bounds of the model *)

\* datetime.now() is read at most MaxNow times in a run
MaxNow == 4
\* a view counter is incremented only while it is below MaxViews
MaxViews == 2

\* the commands one run of backup_to_github may issue
MaxRunLen == 8

-----------------------------------------------------------------------------
(* Python values *)

\* None, for a string-valued column or dict entry
None == "None"
\* None, for a timestamp
NoTime == 0

\* dict.get(k, d)
Get(d, k, default) == IF k \in DOMAIN d THEN d[k] ELSE default

\* `v or d`, where falsy is the falsy value of v's type
PyOr(v, falsy, d) == IF v = falsy THEN d ELSE v

\* the empty dict
EmptyDict == <<>>

\* d[k] = v
Put(d, k, v) == [x \in (DOMAIN d) \cup {k} |-> IF x = k THEN v ELSE d[x]]

\* a.update(b)
Update(a, b) ==
    [x \in (DOMAIN a) \cup (DOMAIN b) |-> IF x \in DOMAIN b THEN b[x] ELSE a[x]]

RECURSIVE LStrip(_)
LStrip(s) == IF s # <<>> /\ Head(s) = " " THEN LStrip(Tail(s)) ELSE s

RECURSIVE RStrip(_)
RStrip(s) ==
    IF s # <<>> /\ s[Len(s)] = " " THEN RStrip(SubSeq(s, 1, Len(s) - 1)) ELSE s

\* str.strip()
Strip(s) == RStrip(LStrip(s))

\* the indices of a table, and the rows selected by a predicate on the index
Idx(rows) == 1..Len(rows)

RECURSIVE RemoveAt(_, _)
RemoveAt(rows, i) ==
    IF rows = <<>> THEN <<>>
    ELSE IF i = 1 THEN Tail(rows)
    ELSE <<Head(rows)>> \o RemoveAt(Tail(rows), i - 1)

\* the id SQLite gives the next row of an INTEGER PRIMARY KEY table
NextId(rows) == IF rows = <<>> THEN 1 ELSE rows[Len(rows)].id + 1

-----------------------------------------------------------------------------
(* Table articles *)

\* the Article columns a record's key can set through the constructor
ArticleFixedKeys ==
    {"title", "url", "summary", "source", "category", "published_time",
     "created_at", "archived_at", "view_count", "score", "tags", "tool_tags"}

\* a lookup that sees only the first row of the table
ArticleFirstRowOnly(rows, url) ==
    {i \in Idx(rows) : i = 1 /\ rows[i].url = url}

\* select(Article).where(Article.url == url): the indices of the matching rows
ArticlesWithUrl(rows, url) == {i \in Idx(rows) : rows[i].url = url}

\* extra_data of a new Article: the keys outside the fixed schema
ArticleExtraData(article) ==
    [k \in (DOMAIN article) \ ArticleFixedKeys |-> article[k]]

\* the row written when the url is not stored yet
NewArticle(id, url, article, category, tool_tags, t) ==
    [id |-> id,
     title |-> Get(article, "title", ""),
     url |-> url,
     summary |-> Get(article, "summary", None),
     source |-> Get(article, "source", None),
     category |-> category,
     published_time |-> Get(article, "published_time", NoTime),
     created_at |-> PyOr(Get(article, "created_at", NoTime), NoTime, t),
     archived_at |-> t,
     view_count |-> Get(article, "view_count", 0),
     score |-> Get(article, "score", 0),
     tags |-> Get(article, "tags", <<>>),
     tool_tags |-> PyOr(tool_tags, <<>>, <<>>),
     extra_data |-> ArticleExtraData(article)]

\* an update that overwrites the row instead of merging into it
ReplacedArticle(existing, article, category, tool_tags, t) ==
    NewArticle(existing.id, existing.url, article, category, tool_tags, t)

\* the row written when the url is already stored
UpdatedArticle(existing, article, category, tool_tags, t) ==
    [existing EXCEPT
        !.title = Get(article, "title", existing.title),
        !.summary = Get(article, "summary", existing.summary),
        !.source = Get(article, "source", existing.source),
        !.category = category,
        !.published_time = Get(article, "published_time", existing.published_time),
        !.created_at = PyOr(Get(article, "created_at", existing.created_at), NoTime, t),
        !.archived_at = t,
        !.view_count = PyOr(Get(article, "view_count", existing.view_count), 0, 0),
        !.score = PyOr(Get(article, "score", existing.score), 0, 0),
        !.tags = PyOr(Get(article, "tags", existing.tags), <<>>, <<>>),
        !.tool_tags = IF tool_tags # <<>> THEN tool_tags ELSE existing.tool_tags]

\* session.add + commit of a new Article: the unique index on articles.url
\* rejects a second row with the same url (IntegrityError)
InsertArticle(rows, row) ==
    IF ArticlesWithUrl(rows, row.url) # {}
    THEN [rows |-> rows, ok |-> FALSE]
    ELSE [rows |-> Append(rows, row), ok |-> TRUE]

\* archive_article_to_category as one transaction at time t:
\* the table afterwards and the value returned
ArchiveArticleTxn(rows, article, category, tool_tags, t) ==
    LET url == Strip(Get(article, "url", <<>>))
        found == ArticlesWithUrl(rows, url)
    IN  IF url = <<>> THEN [rows |-> rows, ok |-> FALSE]
        \* scalar_one_or_none raises MultipleResultsFound, caught at line 99
        ELSE IF Cardinality(found) > 1 THEN [rows |-> rows, ok |-> FALSE]
        ELSE IF found # {} THEN
            LET i == CHOOSE j \in found : TRUE
            IN  [rows |-> [rows EXCEPT ![i] =
                              UpdatedArticle(rows[i], article, category, tool_tags, t)],
                 ok |-> TRUE]
        ELSE InsertArticle(rows, NewArticle(NextId(rows), url, article,
                                            category, tool_tags, t))

\* an increment whose write is lost
IncrementArticleLost(rows, url) ==
    [rows |-> rows, ok |-> ArticlesWithUrl(rows, url) # {}]

\* DatabaseDataService.increment_article_view_count: the url is compared as given
IncrementArticleTxn(rows, url) ==
    LET found == ArticlesWithUrl(rows, url)
    IN  IF found = {} THEN [rows |-> rows, ok |-> FALSE]
        ELSE LET i == CHOOSE j \in found : TRUE
             IN  [rows |-> [rows EXCEPT ![i].view_count = PyOr(@, 0, 0) + 1],
                  ok |-> TRUE]

\* delete_article_from_all_categories: the url is stripped before the lookup
DeleteArticleTxn(rows, url) ==
    LET found == ArticlesWithUrl(rows, Strip(url))
    IN  IF found = {} THEN [rows |-> rows, ok |-> FALSE]
        ELSE [rows |-> RemoveAt(rows, CHOOSE j \in found : TRUE), ok |-> TRUE]

\* DatabaseDataService.is_article_archived: the url is compared as given
IsArticleArchived(rows, url) == ArticlesWithUrl(rows, url) # {}

\* the dict DatabaseDataService.get_articles returns for a row
ArticleToDict(row) ==
    Update([id |-> row.id,
            title |-> row.title,
            url |-> row.url,
            summary |-> row.summary,
            source |-> row.source,
            category |-> row.category,
            published_time |-> row.published_time,
            created_at |-> row.created_at,
            archived_at |-> row.archived_at,
            view_count |-> PyOr(row.view_count, 0, 0),
            score |-> PyOr(row.score, 0, 0),
            tags |-> PyOr(row.tags, <<>>, <<>>),
            tool_tags |-> PyOr(row.tool_tags, <<>>, <<>>)],
           row.extra_data)

-----------------------------------------------------------------------------
(* Table tools *)

ToolFixedKeys ==
    {"identifier", "name", "url", "description", "category", "is_featured",
     "view_count", "score", "created_at"}

\* select(Tool).where(Tool.identifier == identifier)
ToolsWithIdentifier(rows, identifier) ==
    {i \in Idx(rows) : rows[i].identifier = identifier}

\* select(Tool).where(Tool.url == url)
ToolsWithUrl(rows, url) == {i \in Idx(rows) : rows[i].url = url}

\* select(Tool).where(Tool.id == tool_id)
ToolsWithId(rows, id) == {i \in Idx(rows) : rows[i].id = id}

ToolExtraData(tool) == [k \in (DOMAIN tool) \ ToolFixedKeys |-> tool[k]]

\* the lookup of archive_tool_to_category: by identifier when the record has
\* one, by url otherwise
ToolLookup(rows, identifier, url) ==
    IF identifier # None /\ identifier # ""
    THEN ToolsWithIdentifier(rows, identifier)
    ELSE ToolsWithUrl(rows, url)

UpdatedTool(existing, url, tool, category) ==
    [existing EXCEPT
        !.name = Get(tool, "name", existing.name),
        !.url = PyOr(url, <<>>, existing.url),
        !.description = Get(tool, "description", existing.description),
        !.category = category,
        !.is_featured = PyOr(Get(tool, "is_featured", existing.is_featured), FALSE, FALSE),
        !.view_count = PyOr(Get(tool, "view_count", existing.view_count), 0, 0),
        !.score = PyOr(Get(tool, "score", existing.score), 0, 0),
        !.created_at = Get(tool, "created_at", existing.created_at)]

NewTool(id, identifier, url, tool, category) ==
    [id |-> id,
     identifier |-> identifier,
     name |-> Get(tool, "name", ""),
     url |-> url,
     description |-> Get(tool, "description", None),
     category |-> category,
     is_featured |-> Get(tool, "is_featured", FALSE),
     view_count |-> Get(tool, "view_count", 0),
     score |-> Get(tool, "score", 0),
     created_at |-> Get(tool, "created_at", NoTime),
     extra_data |-> ToolExtraData(tool)]

\* session.add + commit of a new Tool: tools.identifier is unique (NULLs
\* apart), tools.url is not
InsertTool(rows, row) ==
    IF row.identifier # None /\ ToolsWithIdentifier(rows, row.identifier) # {}
    THEN [rows |-> rows, ok |-> FALSE]
    ELSE [rows |-> Append(rows, row), ok |-> TRUE]

\* archive_tool_to_category as one transaction
ArchiveToolTxn(rows, tool, category) ==
    LET url == Strip(Get(tool, "url", <<>>))
        identifier == Get(tool, "identifier", None)
        found == ToolLookup(rows, identifier, url)
    IN  IF url = <<>> /\ (identifier = None \/ identifier = "")
        THEN [rows |-> rows, ok |-> FALSE]
        \* scalar_one_or_none raises MultipleResultsFound, caught at line 170
        ELSE IF Cardinality(found) > 1 THEN [rows |-> rows, ok |-> FALSE]
        ELSE IF found # {} THEN
            LET i == CHOOSE j \in found : TRUE
            IN  [rows |-> [rows EXCEPT ![i] = UpdatedTool(rows[i], url, tool, category)],
                 ok |-> TRUE]
        ELSE InsertTool(rows, NewTool(NextId(rows), identifier, url, tool, category))

\* DatabaseDataService.increment_tool_view_count(tool_id, tool_identifier);
\* NoId is tool_id = None
NoId == 0

IncrementToolTxn(rows, tool_id, tool_identifier) ==
    LET byIdent == tool_identifier # None /\ tool_identifier # ""
        found == IF byIdent THEN ToolsWithIdentifier(rows, tool_identifier)
                 ELSE ToolsWithId(rows, tool_id)
    IN  IF ~byIdent /\ tool_id = NoId THEN [rows |-> rows, ok |-> FALSE]
        ELSE IF found = {} THEN [rows |-> rows, ok |-> FALSE]
        ELSE LET i == CHOOSE j \in found : TRUE
             IN  [rows |-> [rows EXCEPT ![i].view_count = PyOr(@, 0, 0) + 1],
                  ok |-> TRUE]

-----------------------------------------------------------------------------
(* The session of an archive call and its failures *)

\* where the database can fail a call: at the SELECT that looks the record
\* up, or at the COMMIT
Faults == {"none", "lookup", "commit"}

\* a session left with its changes applied although no commit succeeded
PartlyApplied(rows, pending) == pending

\* `async with AsyncSessionLocal()` left by an exception: the session is
\* closed without a commit and what the call changed in it is discarded
RolledBack(rows, pending) == rows

\* archive_article_to_category with the failures of its session; the whole
\* body is inside try ... except Exception: return False, so that every
\* exception ends as the value False
ArchiveArticleSession(rows, article, category, tool_tags, t, fault) ==
    LET url == Strip(Get(article, "url", <<>>))
        r == ArchiveArticleTxn(rows, article, category, tool_tags, t)
    IN  IF url = <<>> THEN [rows |-> rows, ok |-> FALSE, raised |-> FALSE]
        ELSE IF fault = "lookup"
        THEN [rows |-> RolledBack(rows, rows), ok |-> FALSE, raised |-> FALSE]
        ELSE IF fault = "commit"
        THEN [rows |-> RolledBack(rows, r.rows), ok |-> FALSE, raised |-> FALSE]
        ELSE [rows |-> r.rows, ok |-> r.ok, raised |-> FALSE]

\* archive_tool_to_category with the failures of its session
ArchiveToolSession(rows, tool, category, fault) ==
    LET url == Strip(Get(tool, "url", <<>>))
        identifier == Get(tool, "identifier", None)
        r == ArchiveToolTxn(rows, tool, category)
    IN  IF url = <<>> /\ (identifier = None \/ identifier = "")
        THEN [rows |-> rows, ok |-> FALSE, raised |-> FALSE]
        ELSE IF fault = "lookup"
        THEN [rows |-> RolledBack(rows, rows), ok |-> FALSE, raised |-> FALSE]
        ELSE IF fault = "commit"
        THEN [rows |-> RolledBack(rows, r.rows), ok |-> FALSE, raised |-> FALSE]
        ELSE [rows |-> r.rows, ok |-> r.ok, raised |-> FALSE]

-----------------------------------------------------------------------------
(* Calls whose sessions overlap *)

\* result.scalar_one_or_none() of a lookup: no object, or the row as the
\* session loaded it
Loaded(rows, found) ==
    IF found = {} THEN <<>> ELSE <<rows[CHOOSE j \in found : TRUE]>>

\* the UPDATE a commit flushes for a loaded object: it sets the columns
\* whose value the call changed and leaves the others as the table has them
Flushed(current, loaded, changed) ==
    [k \in DOMAIN current |-> IF changed[k] # loaded[k] THEN changed[k] ELSE current[k]]

\* the UPDATE of the row with the id of the loaded object; the row is gone
\* when another session deleted it (StaleDataError)
FlushUpdate(rows, loaded, changed) ==
    LET found == {i \in Idx(rows) : rows[i].id = loaded.id}
    IN  IF found = {} THEN [rows |-> rows, ok |-> FALSE]
        ELSE LET i == CHOOSE j \in found : TRUE
             IN  [rows |-> [rows EXCEPT ![i] = Flushed(rows[i], loaded, changed)],
                  ok |-> TRUE]

\* archive_article_to_category from the lookup on (lines 54-97): existing is
\* what the lookup loaded, rows is the table at the commit
CommitArticle(rows, existing, url, article, category, tool_tags, t) ==
    IF existing = <<>>
    THEN InsertArticle(rows, NewArticle(NextId(rows), url, article, category, tool_tags, t))
    ELSE FlushUpdate(rows, existing[1],
                     UpdatedArticle(existing[1], article, category, tool_tags, t))

\* archive_tool_to_category from the lookup on (lines 136-168)
CommitTool(rows, existing, identifier, url, tool, category) ==
    IF existing = <<>>
    THEN InsertTool(rows, NewTool(NextId(rows), identifier, url, tool, category))
    ELSE FlushUpdate(rows, existing[1], UpdatedTool(existing[1], url, tool, category))

\* increment_article_view_count from the read on (lines 613-615): the value
\* written is the one computed from the row as it was read
CommitIncrement(rows, article) ==
    FlushUpdate(rows, article, [article EXCEPT !.view_count = PyOr(@, 0, 0) + 1])

-----------------------------------------------------------------------------
(* File snapshot: WeeklyBackupService.export_data_to_json *)

\* the distinct elements of s, in the order of their first occurrence
RECURSIVE FirstOccurrences(_)
FirstOccurrences(s) ==
    IF s = <<>> THEN <<>>
    ELSE LET init == FirstOccurrences(SubSeq(s, 1, Len(s) - 1))
             x == s[Len(s)]
         IN  IF \E i \in 1..Len(init) : init[i] = x THEN init ELSE Append(init, x)

\* an exclusion list that names only the candidate pool
ExcludedOnlyCandidates == {"ai_candidates"}

\* the article categories export skips: the candidate pool and the article pool
ExcludedArticleCategories == {"ai_candidates", "ai_articles"}

\* the dict _export_articles_to_json builds for a row
ArticleDict(row) ==
    Update([id |-> row.id,
            title |-> row.title,
            url |-> row.url,
            summary |-> row.summary,
            source |-> row.source,
            category |-> row.category,
            published_time |-> row.published_time,
            created_at |-> row.created_at,
            archived_at |-> row.archived_at,
            view_count |-> PyOr(row.view_count, 0, 0),
            score |-> PyOr(row.score, 0, 0),
            tags |-> PyOr(row.tags, <<>>, <<>>),
            tool_tags |-> PyOr(row.tool_tags, <<>>, <<>>)],
           row.extra_data)

\* article.category or "uncategorized"
ArticleGroup(row) ==
    IF row.category = None \/ row.category = "" THEN "uncategorized" ELSE row.category

\* articles_by_category[c], in table order
ArticlesOfGroup(rows, c) ==
    LET sel == SelectSeq(rows, LAMBDA r : ArticleGroup(r) = c)
    IN  [i \in 1..Len(sel) |-> ArticleDict(sel[i])]

\* lines 252-259: one file per category, the excluded categories skipped;
\* failing is the set of files whose write fails (_save_json_file returns
\* False, which export_data_to_json does not read)
ExportArticles(files, rows, failing) ==
    LET written == ({ArticleGroup(rows[i]) : i \in Idx(rows)}
                        \ ExcludedArticleCategories) \ failing
    IN  [c \in (DOMAIN files) \cup written |->
            IF c \in written THEN ArticlesOfGroup(rows, c) ELSE files[c]]

\* the dict _export_tools_to_json builds for a row
ToolDict(row) ==
    Update([id |-> row.id,
            identifier |-> row.identifier,
            name |-> row.name,
            url |-> row.url,
            description |-> row.description,
            category |-> row.category,
            is_featured |-> PyOr(row.is_featured, FALSE, FALSE),
            view_count |-> PyOr(row.view_count, 0, 0),
            score |-> PyOr(row.score, 0, 0),
            created_at |-> row.created_at],
           row.extra_data)

\* tool.category or "other"
ToolGroup(row) ==
    IF row.category = None \/ row.category = "" THEN "other" ELSE row.category

\* tools_by_category[c], in table order
ToolsOfGroup(rows, c) ==
    LET sel == SelectSeq(rows, LAMBDA r : ToolGroup(r) = c)
    IN  [i \in 1..Len(sel) |-> ToolDict(sel[i])]

\* the keys of tools_by_category, in insertion order
ToolGroupOrder(rows) == FirstOccurrences([i \in Idx(rows) |-> ToolGroup(rows[i])])

Save(files, name, data, failing) ==
    IF name \in failing THEN files ELSE Put(files, name, data)

\* lines 263-278, one iteration of the loop per category
RECURSIVE ExportToolGroups(_, _, _, _)
ExportToolGroups(files, cats, rows, failing) ==
    IF cats = <<>> THEN files
    ELSE LET category == Head(cats)
             group == ToolsOfGroup(rows, category)
             featured_tools == SelectSeq(group, LAMBDA t : Get(t, "is_featured", FALSE))
             category_tools == SelectSeq(group, LAMBDA t : ~Get(t, "is_featured", FALSE))
             f1 == IF (category = "featured" \/ featured_tools # <<>>)
                      /\ featured_tools # <<>>
                   THEN Save(files, "featured", featured_tools, failing)
                   ELSE files
             f2 == IF category # "featured" /\ category_tools # <<>>
                   THEN Save(f1, category, category_tools, failing)
                   ELSE f1
         IN  ExportToolGroups(f2, Tail(cats), rows, failing)

ExportTools(files, rows, failing) ==
    ExportToolGroups(files, ToolGroupOrder(rows), rows, failing)

-----------------------------------------------------------------------------
(* The backup pipeline: WeeklyBackupService.backup_to_github *)

\* how export_data_to_json can end: every query answered, or an exception
\* out of _export_articles_to_json or out of _export_tools_to_json, caught
\* at line 301
ExportOutcomes == {"ok", "articles_raise", "tools_raise"}

\* export_data_to_json: the files afterwards and the value returned; failing
\* is the set of files whose write fails
ExportDataToJsonTxn(afiles, tfiles, arows, trows, outcome, failing) ==
    [articleFiles |-> IF outcome = "articles_raise" THEN afiles
                      ELSE ExportArticles(afiles, arows, failing),
     toolFiles |-> IF outcome = "ok" THEN ExportTools(tfiles, trows, failing) ELSE tfiles,
     ok |-> outcome = "ok"]

\* how the subprocess of a git command can end
GitOutcomes == {"ok", "nonzero", "timeout", "exception"}

\* _run_git_command: the return code; TimeoutExpired and every other
\* exception are caught and end as -1
RunGitCommand(outcome) ==
    CASE outcome = "ok" -> 0
      [] outcome = "nonzero" -> 1
      [] OTHER -> 0 - 1

\* the command lines of backup_to_github
GitStatus == <<"git", "status", "--porcelain", "data/">>
GitAdd == <<"git", "add", "data/">>
GitCommit == <<"git", "commit", "-m">>
GitPush == <<"git", "push", "origin", "master">>
GitPull == <<"git", "pull", "origin", "master", "--rebase">>
ExportCall == <<"export_data_to_json">>

\* one stage of a run as it ended: the command, its return code (for the
\* export 0 is True), the files whose write failed, and whether the change
\* check printed any change
Event(cmd, code, unsaved, changes) ==
    [cmd |-> cmd, code |-> code, unsaved |-> unsaved, changes |-> changes]

\* the content of data/ as git sees it
Tree(afiles, tfiles) == [articles |-> afiles, tools |-> tfiles]

\* git status --porcelain data/: the files of the working tree that differ
\* from the last commit
PorcelainStatus(work, head) ==
    {<<"articles", f>> : f \in {g \in (DOMAIN work.articles) \cup (DOMAIN head.articles) :
                Get(work.articles, g, <<>>) # Get(head.articles, g, <<>>)}}
    \cup
    {<<"tools", f>> : f \in {g \in (DOMAIN work.tools) \cup (DOMAIN head.tools) :
                Get(work.tools, g, <<>>) # Get(head.tools, g, <<>>)}}

\* where a run goes on after each stage (lines 317-408)
AfterRepoCheck(is_repo) == IF is_repo THEN "export" ELSE "idle"

AfterExport(success) == IF success THEN "status" ELSE "idle"

\* a change check whose output is not read
AfterStatusUnread(code, stdout) == IF code # 0 THEN "idle" ELSE "add"

AfterStatus(code, stdout) ==
    IF code # 0 THEN "idle"
    ELSE IF stdout = {} THEN "idle"
    ELSE "add"

AfterAdd(code) == IF code # 0 THEN "idle" ELSE "commit"

AfterCommit(code) == IF code # 0 THEN "idle" ELSE "push"

AfterPush(code) == IF code # 0 THEN "pull" ELSE "idle"

\* a pull that is tried again when it fails
AfterPullAgain(code) == IF code = 0 THEN "repush" ELSE "pull"

AfterPull(code) == IF code = 0 THEN "repush" ELSE "idle"

\* a second push that goes back to the pull when it fails
AfterRepushRetry(code) == IF code # 0 THEN "pull" ELSE "idle"

AfterRepush(code) == "idle"

-----------------------------------------------------------------------------
(* File snapshot: DataLoader *)

\* article.get("url", "").strip() == url.strip()
LoaderUrlMatch(d, url) == Strip(Get(d, "url", <<>>)) = Strip(url)

\* the files in which some record matches url
FilesHolding(files, url) ==
    {f \in DOMAIN files : \E i \in 1..Len(files[f]) : LoaderUrlMatch(files[f][i], url)}

\* DataLoader.increment_article_view_count, f being the first file of the
\* glob that holds the url: its first matching record is incremented
LoaderIncrementIn(files, f, url) ==
    LET i == CHOOSE j \in 1..Len(files[f]) :
                 /\ LoaderUrlMatch(files[f][j], url)
                 /\ \A k \in 1..(j - 1) : ~LoaderUrlMatch(files[f][k], url)
        d == files[f][i]
    IN  [files EXCEPT ![f][i] = Put(d, "view_count", Get(d, "view_count", 0) + 1)]

\* tool.get("id") == tool_id
LoaderIdMatch(d, tool_id) == Get(d, "id", NoId) = tool_id

\* the files in which some record has the id
FilesHoldingId(files, tool_id) ==
    {f \in DOMAIN files : \E i \in 1..Len(files[f]) : LoaderIdMatch(files[f][i], tool_id)}

\* DataLoader.increment_tool_view_count, f being the first file of the glob
\* that holds the id: its first matching record is incremented
LoaderIncrementToolIn(files, f, tool_id) ==
    LET i == CHOOSE j \in 1..Len(files[f]) :
                 /\ LoaderIdMatch(files[f][j], tool_id)
                 /\ \A k \in 1..(j - 1) : ~LoaderIdMatch(files[f][k], tool_id)
        d == files[f][i]
    IN  [files EXCEPT ![f][i] = Put(d, "view_count", Get(d, "view_count", 0) + 1)]

-----------------------------------------------------------------------------
(* Text: a str is the sequence of its characters *)

\* None where a str is expected: a sequence that holds no character
NullText == <<None>>

\* str.lower() of one character
LowerChar(c) ==
    CASE c = "A" -> "a"
      [] c = "B" -> "b"
      [] OTHER -> c

\* str.lower()
Lower(s) == [i \in 1..Len(s) |-> LowerChar(s[i])]

\* needle in hay
Contains(hay, needle) ==
    \E i \in 0..(Len(hay) - Len(needle)) :
        \A j \in 1..Len(needle) : hay[i + j] = needle[j]

\* SQLite's text LIKE pattern: % matches any run of characters, _ any one
\* character, a letter matches itself in either case
RECURSIVE Like(_, _)
Like(text, pattern) ==
    IF pattern = <<>> THEN text = <<>>
    ELSE IF Head(pattern) = "%"
         THEN \E k \in 0..Len(text) :
                  Like(SubSeq(text, k + 1, Len(text)), Tail(pattern))
    ELSE IF text = <<>> THEN FALSE
    ELSE /\ Head(pattern) = "_" \/ LowerChar(Head(pattern)) = LowerChar(Head(text))
         /\ Like(Tail(text), Tail(pattern))

\* column.like(f"%{search}%"); NULL LIKE pattern is NULL, which selects no row
ColumnLike(value, search) ==
    value # NullText /\ Like(value, <<"%">> \o search \o <<"%">>)

\* the truth value of an Optional[str] argument
Truthy(s) == s # NullText /\ s # <<>>

-----------------------------------------------------------------------------
(* Sorting and paging *)

\* the pairs of positions of a list
Pairs(s) == (1..Len(s)) \X (1..Len(s))

\* list.sort with a strict order on positions: precedes[<<j, i>>] says that
\* the element at j comes before the element at i in the result
SortedBy(s, precedes) ==
    [r \in 1..Len(s) |->
        s[CHOOSE i \in 1..Len(s) :
              Cardinality({j \in 1..Len(s) : precedes[<<j, i>>]}) = r - 1]]

\* list.sort(key, reverse=True), keys[i] being the key of s[i]: descending
\* by key, equal keys in their original order
SortDescStable(s, keys) ==
    SortedBy(s, [p \in Pairs(s) |->
                    \/ keys[p[1]] > keys[p[2]]
                    \/ keys[p[1]] = keys[p[2]] /\ p[1] < p[2]])

\* the results an ORDER BY may give: the orders of the rows in which no row
\* stands before one that before[<<a, b>>] puts first; rows that it does not
\* order come in an order the database does not fix
OrderedBy(rows, before) ==
    LET n == Len(rows)
        perms == {p \in [1..n -> 1..n] : \A a, b \in 1..n : p[a] = p[b] => a = b}
    IN  {[r \in 1..n |-> rows[p[r]]] :
            p \in {q \in perms : \A a, b \in 1..n :
                                     a < b => ~before[<<q[b], q[a]>>]}}

\* a slice that takes the page number for the number of pages to skip
PageFromZero(s, page, page_size) ==
    SubSeq(s, page * page_size + 1,
           IF (page + 1) * page_size < Len(s) THEN (page + 1) * page_size ELSE Len(s))

\* list[start:end] and OFFSET start LIMIT page_size, for page >= 1
Page(s, page, page_size) ==
    LET start == (page - 1) * page_size
        end == start + page_size
    IN  SubSeq(s, start + 1, IF end < Len(s) THEN end ELSE Len(s))

-----------------------------------------------------------------------------
(* Archival into the file snapshot: DataLoader.archive_*_to_category *)

\* _load_json_file: the list in the file, [] when the file does not exist
LoadJsonFile(files, name) == IF name \in DOMAIN files THEN files[name] ELSE <<>>

\* the url of a record as the file adapter compares it: not stripped, None
\* when the key is missing
ExactUrl(d) == Get(d, "url", NullText)

\* lines 334-340: the greatest id of the records of all files, 0 if none
MaxFileId(files) ==
    LET ids == {Get(files[p[1]][p[2]], "id", 0) :
                   p \in UNION {{<<f, i>> : i \in 1..Len(files[f])} : f \in DOMAIN files}}
    IN  IF ids = {} THEN 0 ELSE CHOOSE m \in ids : \A x \in ids : x <= m

\* article["tags"].extend([tag for tag in tool_tags if tag not in article["tags"]]):
\* the list of the tags to add is built, against the tags as they are, before
\* any of them is added
ExtendTags(tags, tool_tags) ==
    tags \o SelectSeq(tool_tags, LAMBDA tag : ~\E i \in 1..Len(tags) : tags[i] = tag)

\* lines 331-365: the record as the call completes it before it looks at the
\* target file; both reads of the clock give t
LoaderArticleRecord(files, article, category, tool_tags, t) ==
    LET a1 == IF "id" \in DOMAIN article THEN article
              ELSE Put(article, "id", MaxFileId(files) + 1)
        a2 == IF "created_at" \in DOMAIN a1 THEN a1 ELSE Put(a1, "created_at", t)
        a3 == IF "published_time" \in DOMAIN a2 THEN a2
              ELSE Put(a2, "published_time", a2.created_at)
        a4 == Put(a3, "archived_at", t)
        a5 == IF "view_count" \in DOMAIN a4 THEN a4 ELSE Put(a4, "view_count", 0)
        a6 == Put(a5, "category", category)
    IN  IF tool_tags = <<>> THEN a6
        ELSE Put(Put(a6, "tool_tags", tool_tags),
                 "tags", ExtendTags(Get(a6, "tags", <<>>), tool_tags))

\* DataLoader.archive_article_to_category: the files afterwards and the
\* value returned
LoaderArchiveArticleTxn(files, article, category, tool_tags, t) ==
    LET record == LoaderArticleRecord(files, article, category, tool_tags, t)
        articles_ == LoadJsonFile(files, category)
    IN  IF \E i \in 1..Len(articles_) : ExactUrl(articles_[i]) = ExactUrl(record)
        THEN [files |-> files, ok |-> FALSE]
        ELSE [files |-> Put(files, category, Append(articles_, record)), ok |-> TRUE]

\* DataLoader.archive_tool_to_category
LoaderArchiveToolTxn(files, tool, category) ==
    LET tools_ == LoadJsonFile(files, category)
    IN  IF \E i \in 1..Len(tools_) : ExactUrl(tools_[i]) = ExactUrl(tool)
        THEN [files |-> files, ok |-> FALSE]
        ELSE [files |-> Put(files, category, Append(tools_, tool)), ok |-> TRUE]

-----------------------------------------------------------------------------
(* Queries of the file snapshot: DataLoader.get_tools, DataLoader.get_articles *)

\* the value of an Optional[bool] argument: None, True or False
True == "True"
False == "False"

\* what a query gives its caller: the exception it raised, or (records, total)
Raised == [raised |-> TRUE, records |-> <<>>, total |-> 0]

Returned(records, total) == [raised |-> FALSE, records |-> records, total |-> total]

\* the orders in which Path.glob may yield the files of a directory
GlobOrders(names) ==
    {o \in [1..Cardinality(names) -> names] :
        \A a, b \in 1..Cardinality(names) : o[a] = o[b] => a = b}

\* the lists of the files of order, one after the other
RECURSIVE LoadAll(_, _)
LoadAll(files, order) ==
    IF order = <<>> THEN <<>>
    ELSE LoadJsonFile(files, Head(order)) \o LoadAll(files, Tail(order))

\* seen_ids: the positions of the records that are kept, in order; a record
\* is kept when its id is truthy and no earlier record of the list has it
UniqueById(all) ==
    LET kept == {i \in 1..Len(all) :
                    /\ Get(all[i], "id", NoId) # NoId
                    /\ \A j \in 1..(i - 1) :
                           Get(all[j], "id", NoId) # Get(all[i], "id", NoId)}
    IN  [r \in 1..Cardinality(kept) |->
            CHOOSE k \in kept : Cardinality({j \in kept : j < k}) = r - 1]

\* unique_tools, unique_articles
UniqueRecords(all) == [i \in 1..Len(UniqueById(all)) |-> all[UniqueById(all)[i]]]

\* lines 65-89: featured.json first, then the category's file or every
\* other file in the order of the glob
LoaderAllTools(files, order, category, featured) ==
    LET featured_tools == LoadJsonFile(files, "featured")
    IN  IF featured = True THEN featured_tools
        ELSE IF category # None /\ category # ""
             THEN featured_tools \o LoadJsonFile(files, category)
        ELSE featured_tools \o LoadAll(files, SelectSeq(order, LAMBDA f : f # "featured"))

\* search_lower in t.get(field, "").lower(): None has no lower()
FieldRaises(d, field) == Get(d, field, <<>>) = NullText

FieldContains(d, field, search_lower) ==
    Contains(Lower(Get(d, field, <<>>)), search_lower)

\* the search of get_tools for one record: name, then description
LoaderToolMatch(t, search_lower) ==
    FieldContains(t, "name", search_lower) \/ FieldContains(t, "description", search_lower)

\* the search raises AttributeError at the first field that is None
LoaderToolMatchRaises(t, search_lower) ==
    \/ FieldRaises(t, "name")
    \/ ~FieldContains(t, "name", search_lower) /\ FieldRaises(t, "description")

\* lines 131-147: the key of created_at is None for a stored null, "" for a
\* missing key; "" sorts before every timestamp
EmptyTime == 0 - 1

CreatedAtKey(t) == Get(t, "created_at", EmptyTime)

\* x.get("created_at", "") or "1970-01-01T00:00:00Z": the epoch sorts before
\* every timestamp of the model
Epoch == 0

CreatedAtOrEpoch(t) ==
    IF Get(t, "created_at", EmptyTime) \in {EmptyTime, NoTime} THEN Epoch ELSE t.created_at

\* comparing None with anything raises TypeError, and a sort of two or more
\* elements compares every element at least once
SortRaises(keys) == Len(keys) >= 2 /\ \E i \in 1..Len(keys) : keys[i] = NoTime

\* the keys of the records of a list
CreatedAtKeys(s) == [i \in 1..Len(s) |-> CreatedAtKey(s[i])]

LoaderSortTools(s, sort_by) ==
    IF sort_by = "score"
    THEN SortDescStable(s, [i \in 1..Len(s) |-> Get(s[i], "score", 0)])
    ELSE IF sort_by = "view_count"
    THEN SortedBy(s, [p \in Pairs(s) |->
             LET j == p[1]
                 i == p[2]
                 vj == Get(s[j], "view_count", 0)
                 vi == Get(s[i], "view_count", 0)
                 cj == CreatedAtOrEpoch(s[j])
                 ci == CreatedAtOrEpoch(s[i])
             IN  vj > vi \/ (vj = vi /\ cj < ci) \/ (vj = vi /\ cj = ci /\ j < i)])
    ELSE IF sort_by = "created_at"
    THEN SortDescStable(s, CreatedAtKeys(s))
    ELSE s

\* DataLoader.get_tools, the glob yielding the files in the given order
LoaderGetTools(files, order, q) ==
    LET unique_tools == UniqueRecords(LoaderAllTools(files, order, q.category, q.featured))
        by_featured == IF q.featured = None THEN unique_tools
                       ELSE SelectSeq(unique_tools,
                                LAMBDA t : Get(t, "is_featured", FALSE) = (q.featured = True))
        by_category == IF q.category # None /\ q.category # ""
                       THEN SelectSeq(by_featured,
                                LAMBDA t : Get(t, "category", None) = q.category)
                       ELSE by_featured
        search_str == IF Truthy(q.search) THEN Strip(q.search) ELSE <<>>
        searching == Truthy(q.search) /\ search_str # <<>>
        filtered == IF searching
                    THEN SelectSeq(by_category,
                             LAMBDA t : LoaderToolMatch(t, Lower(search_str)))
                    ELSE by_category
    IN  IF searching /\ \E i \in 1..Len(by_category) :
                            LoaderToolMatchRaises(by_category[i], Lower(search_str))
        THEN Raised
        ELSE IF q.sort_by = "created_at" /\ SortRaises(CreatedAtKeys(filtered))
        THEN Raised
        ELSE Returned(Page(LoaderSortTools(filtered, q.sort_by), q.page, q.page_size),
                      Len(filtered))

\* the search of get_articles for one record: title, then summary
LoaderArticleMatch(a, search_lower) ==
    FieldContains(a, "title", search_lower) \/ FieldContains(a, "summary", search_lower)

LoaderArticleMatchRaises(a, search_lower) ==
    \/ FieldRaises(a, "title")
    \/ ~FieldContains(a, "title", search_lower) /\ FieldRaises(a, "summary")

\* x.get("archived_at", x.get("created_at", ""))
ArchivedAtKey(a) == Get(a, "archived_at", Get(a, "created_at", EmptyTime))

PublishedTimeKey(a) == Get(a, "published_time", EmptyTime)

\* x.get("archived_at", x.get("published_time", x.get("created_at", "")))
HeatTimeKey(a) ==
    Get(a, "archived_at", Get(a, "published_time", Get(a, "created_at", EmptyTime)))

\* lines 232-258; sort_by "score" sorts by (view_count, time)
LoaderSortArticles(s, sort_by) ==
    IF sort_by = "archived_at"
    THEN SortDescStable(s, [i \in 1..Len(s) |-> ArchivedAtKey(s[i])])
    ELSE IF sort_by = "published_time"
    THEN SortDescStable(s, [i \in 1..Len(s) |-> PublishedTimeKey(s[i])])
    ELSE IF sort_by = "score"
    THEN SortedBy(s, [p \in Pairs(s) |->
             LET j == p[1]
                 i == p[2]
                 vj == Get(s[j], "view_count", 0)
                 vi == Get(s[i], "view_count", 0)
             IN  \/ vj > vi
                 \/ vj = vi /\ HeatTimeKey(s[j]) > HeatTimeKey(s[i])
                 \/ vj = vi /\ HeatTimeKey(s[j]) = HeatTimeKey(s[i]) /\ j < i])
    ELSE IF sort_by = "created_at" THEN SortDescStable(s, CreatedAtKeys(s))
    ELSE s

\* the sort raises TypeError when it compares a None key
LoaderSortArticlesRaises(s, sort_by) ==
    \/ sort_by = "archived_at" /\ SortRaises([i \in 1..Len(s) |-> ArchivedAtKey(s[i])])
    \/ sort_by = "published_time"
           /\ SortRaises([i \in 1..Len(s) |-> PublishedTimeKey(s[i])])
    \/ sort_by = "created_at" /\ SortRaises(CreatedAtKeys(s))
    \/ /\ sort_by = "score"
       /\ \E i, j \in 1..Len(s) :
              /\ i # j
              /\ Get(s[i], "view_count", 0) = Get(s[j], "view_count", 0)
              /\ HeatTimeKey(s[i]) = NoTime

\* DataLoader.get_articles, the glob yielding the files in the given order
LoaderGetArticles(files, order, q) ==
    LET all_articles == IF q.category # None /\ q.category # ""
                        THEN LoadJsonFile(files, q.category)
                        ELSE LoadAll(files, order)
        unique_articles == UniqueRecords(all_articles)
        by_category == IF q.category # None /\ q.category # ""
                       THEN SelectSeq(unique_articles,
                                LAMBDA a : Get(a, "category", None) = q.category)
                       ELSE unique_articles
        search_str == IF Truthy(q.search) THEN Strip(q.search) ELSE <<>>
        searching == Truthy(q.search) /\ search_str # <<>>
        filtered == IF searching
                    THEN SelectSeq(by_category,
                             LAMBDA a : LoaderArticleMatch(a, Lower(search_str)))
                    ELSE by_category
    IN  IF searching /\ \E i \in 1..Len(by_category) :
                            LoaderArticleMatchRaises(by_category[i], Lower(search_str))
        THEN Raised
        ELSE IF LoaderSortArticlesRaises(filtered, q.sort_by)
        THEN Raised
        ELSE Returned(Page(LoaderSortArticles(filtered, q.sort_by), q.page, q.page_size),
                      Len(filtered))

-----------------------------------------------------------------------------
(* Queries of the relational store: DatabaseDataService.get_tools, get_articles *)

\* the dict get_tools returns for a row
ToolToDict(row) ==
    Update([id |-> row.id,
            identifier |-> row.identifier,
            name |-> row.name,
            url |-> row.url,
            description |-> row.description,
            category |-> row.category,
            is_featured |-> PyOr(row.is_featured, FALSE, FALSE),
            view_count |-> PyOr(row.view_count, 0, 0),
            score |-> PyOr(row.score, 0, 0),
            created_at |-> row.created_at],
           row.extra_data)

\* the WHERE clauses of get_tools; the search is used as given, not stripped
DbToolSelected(row, q) ==
    /\ (q.category # None /\ q.category # "") => row.category = q.category
    /\ q.featured # None => row.is_featured = (q.featured = True)
    /\ Truthy(q.search) =>
           ColumnLike(row.name, q.search) \/ ColumnLike(row.description, q.search)

\* the ORDER BY of get_tools: row a must come before row b. NULL sorts
\* below every value, as NoTime does
DbToolBefore(a, b, sort_by) ==
    IF sort_by = "score"
    THEN a.score > b.score \/ (a.score = b.score /\ a.id > b.id)
    ELSE IF sort_by = "view_count"
    THEN \/ a.view_count > b.view_count
         \/ a.view_count = b.view_count /\ a.created_at > b.created_at
    ELSE IF sort_by = "created_at" THEN a.created_at > b.created_at
    ELSE FALSE

\* DatabaseDataService.get_tools: the results the database may give
DbGetTools(rows, q) ==
    LET selected == SelectSeq(rows, LAMBDA r : DbToolSelected(r, q))
    IN  {Returned(Page([i \in 1..Len(o) |-> ToolToDict(o[i])], q.page, q.page_size),
                  Len(selected)) :
            o \in OrderedBy(selected,
                            [p \in Pairs(selected) |->
                                DbToolBefore(selected[p[1]], selected[p[2]], q.sort_by)])}

\* the WHERE clauses of get_articles
DbArticleSelected(row, q) ==
    /\ (q.category # None /\ q.category # "") => row.category = q.category
    /\ Truthy(q.search) =>
           ColumnLike(row.title, q.search) \/ ColumnLike(row.summary, q.search)

\* the ORDER BY of get_articles; sort_by "score" orders by view_count
DbArticleBefore(a, b, sort_by) ==
    IF sort_by = "archived_at"
    THEN a.archived_at > b.archived_at \/ (a.archived_at = b.archived_at /\ a.id > b.id)
    ELSE IF sort_by = "published_time"
    THEN \/ a.published_time > b.published_time
         \/ a.published_time = b.published_time /\ a.id > b.id
    ELSE IF sort_by = "score"
    THEN \/ a.view_count > b.view_count
         \/ a.view_count = b.view_count /\ a.archived_at > b.archived_at
    ELSE IF sort_by = "created_at"
    THEN a.created_at > b.created_at \/ (a.created_at = b.created_at /\ a.id > b.id)
    ELSE FALSE

\* DatabaseDataService.get_articles: the results the database may give
DbGetArticles(rows, q) ==
    LET selected == SelectSeq(rows, LAMBDA r : DbArticleSelected(r, q))
    IN  {Returned(Page([i \in 1..Len(o) |-> ArticleToDict(o[i])], q.page, q.page_size),
                  Len(selected)) :
            o \in OrderedBy(selected,
                            [p \in Pairs(selected) |->
                                DbArticleBefore(selected[p[1]], selected[p[2]], q.sort_by)])}

-----------------------------------------------------------------------------
(* The calls the environment makes *)

UA == <<"a">>
UAsp == <<" ", "a", " ">>
UB == <<"b">>
UBlank == <<" ">>

\* a timestamp a producer supplies; the clock starts after it
ProducerTime == 1

Call(article, category, tool_tags) ==
    [article |-> article, category |-> category, tool_tags |-> tool_tags]

\* archive_article_to_category(article, category, tool_tags)
ArticleCalls ==
    { Call([url |-> UA, title |-> "old", score |-> 5], "programming", <<>>),
      Call([url |-> UA, title |-> "new"], "programming", <<>>),
      Call([url |-> UAsp], "ai_news", <<>>),
      Call([url |-> UB, summary |-> "s", source |-> "DevMaster"], "programming", <<>>),
      Call([url |-> UA, view_count |-> 0], "programming", <<>>),
      Call([url |-> UA, created_at |-> NoTime], "programming", <<>>),
      Call([url |-> UA, created_at |-> ProducerTime, published_time |-> ProducerTime],
           "programming", <<>>),
      Call([url |-> UA, note |-> "n1"], "programming", <<>>),
      Call([url |-> UA, note |-> "n2"], "programming", <<>>),
      Call([url |-> UA, tags |-> <<"x">>], "ai_news", <<"x", "t">>),
      Call([url |-> UA, category |-> "other"], "ai_news", <<>>),
      Call([url |-> UBlank, title |-> "blank"], "programming", <<>>),
      Call([title |-> "nourl"], "programming", <<>>) }

\* the urls a caller passes to the counter, to the delete and to the queries
UrlArgs == {UA, UAsp, UB}

ToolCall(tool, category) == [tool |-> tool, category |-> category]

\* archive_tool_to_category(tool, category)
ToolCalls ==
    { ToolCall([url |-> UA, name |-> "old", score |-> 5], "ide"),
      ToolCall([url |-> UA, name |-> "new"], "cli"),
      ToolCall([identifier |-> "t1", url |-> UA, is_featured |-> TRUE], "ide"),
      ToolCall([identifier |-> "t1", description |-> "d"], "ide"),
      ToolCall([identifier |-> "t2", url |-> UAsp, view_count |-> 0], "cli"),
      ToolCall([identifier |-> "t2", url |-> UB, vendor |-> "v1"], "cli"),
      ToolCall([url |-> UBlank, name |-> "blank"], "ide"),
      ToolCall([identifier |-> "", name |-> "noid"], "ide") }

\* the calls of the runs that work on both tables
StoreArticleCalls ==
    { Call([url |-> UA, title |-> "old", score |-> 5], "programming", <<>>),
      Call([url |-> UA, title |-> "new"], "ai_news", <<>>),
      Call([url |-> UA, note |-> "n2", tags |-> <<"x">>], "programming", <<"t">>) }

StoreToolCalls ==
    { ToolCall([url |-> UA, name |-> "old", score |-> 5], "ide"),
      ToolCall([url |-> UA, name |-> "new"], "cli"),
      ToolCall([identifier |-> "t1", url |-> UB, is_featured |-> TRUE, vendor |-> "v1"], "ide"),
      ToolCall([identifier |-> "t1", description |-> "d"], "ide") }

\* the calls of the runs that export
SnapshotArticleCalls ==
    { Call([url |-> UA, title |-> "old"], "programming", <<>>),
      Call([url |-> UA], "ai_news", <<>>),
      Call([url |-> UB, note |-> "n1"], "programming", <<>>),
      Call([url |-> UB], "ai_candidates", <<>>),
      Call([url |-> UA], "ai_articles", <<>>) }

SnapshotToolCalls ==
    { ToolCall([identifier |-> "t1", url |-> UA, is_featured |-> TRUE], "ide"),
      ToolCall([identifier |-> "t2", url |-> UB, is_featured |-> TRUE], "cli"),
      ToolCall([identifier |-> "t3", url |-> UB], "ide"),
      ToolCall([identifier |-> "t1", is_featured |-> FALSE], "cli") }

\* the calls of the runs that count views in both adapters
CounterArticleCalls ==
    { Call([url |-> UA, title |-> "old"], "programming", <<>>),
      Call([url |-> UAsp, view_count |-> 1], "ai_news", <<>>) }

CounterToolCalls ==
    { ToolCall([identifier |-> "t1", url |-> UA], "ide"),
      ToolCall([url |-> UB, is_featured |-> TRUE], "cli") }

\* data/articles/ before the first export: empty, or holding an
\* ai_candidates.json that DataLoader.archive_article_to_category wrote
CandidatePool == <<[url |-> UB, title |-> "candidate"]>>

SnapshotInitFiles == {EmptyDict, [ai_candidates |-> CandidatePool]}

\* increment_tool_view_count(tool_id, tool_identifier)
ToolCounterArgs ==
    { [tool_id |-> NoId, tool_identifier |-> "t1"],
      [tool_id |-> 1, tool_identifier |-> None],
      [tool_id |-> 2, tool_identifier |-> "t9"],
      [tool_id |-> NoId, tool_identifier |-> None] }

\* DataLoader.increment_tool_view_count(tool_id)
ToolIdArgs == {1, 2}

\* the Tool records of the runs that query: every text field is given
QueryToolCalls ==
    { ToolCall([identifier |-> "t1", url |-> UA, name |-> <<"A", "b">>,
                description |-> NullText, is_featured |-> TRUE, score |-> 10,
                view_count |-> 3, created_at |-> ProducerTime], "ide"),
      ToolCall([identifier |-> "t2", url |-> UB, name |-> <<"b">>,
                description |-> <<"a", " ", "b">>, is_featured |-> FALSE, score |-> 10,
                view_count |-> 3, created_at |-> ProducerTime + 1], "ide"),
      ToolCall([identifier |-> "t3", url |-> <<"c">>, name |-> <<"c">>,
                description |-> <<>>, is_featured |-> FALSE, score |-> 5,
                view_count |-> 7, created_at |-> ProducerTime + 1], "cli") }

\* DataLoader.archive_tool_to_category(tool, category): a tool as a producer
\* gives it, with no id
LoaderToolCalls ==
    { ToolCall([url |-> UA, name |-> <<"A", "b">>, description |-> <<>>,
                is_featured |-> TRUE], "featured"),
      ToolCall([url |-> UA, name |-> <<"A", "b">>, description |-> <<>>,
                is_featured |-> TRUE], "ide") }

\* the Article records given to both adapters: a key, the same key again, the
\* key with surrounding whitespace, the key into another category, and the
\* records without a usable key
AdapterArticleCalls ==
    { Call([url |-> UA, title |-> "old"], "programming", <<>>),
      Call([url |-> UA, title |-> "new"], "programming", <<>>),
      Call([url |-> UAsp, title |-> "spaced"], "programming", <<>>),
      Call([url |-> UA, title |-> "old"], "ai_news", <<>>),
      Call([url |-> UBlank, title |-> "blank"], "programming", <<>>),
      Call([url |-> <<>>, title |-> "empty"], "programming", <<>>),
      Call([title |-> "nourl"], "programming", <<>>),
      Call([url |-> UB, tags |-> <<"x">>], "programming", <<"x", "t", "t">>) }

\* the Tool records given to both adapters
AdapterToolCalls ==
    { ToolCall([url |-> UA, name |-> "old"], "ide"),
      ToolCall([url |-> UA, name |-> "new"], "ide"),
      ToolCall([url |-> UBlank, name |-> "blank"], "ide"),
      ToolCall([url |-> UBlank, identifier |-> " ", name |-> "blankid"], "ide"),
      ToolCall([name |-> "nokey"], "ide") }

\* the Article records archived between and during the runs of the backup
BackupArticleCalls ==
    { Call([url |-> UA, title |-> "old"], "programming", <<>>),
      Call([url |-> UA, title |-> "new"], "programming", <<>>),
      Call([url |-> UB], "ai_news", <<>>) }

\* the records archived by calls whose sessions overlap: one key, twice
ConcurrentArticleCalls ==
    { Call([url |-> UA, title |-> "old"], "programming", <<>>),
      Call([url |-> UAsp, title |-> "new"], "ai_news", <<>>) }

ConcurrentToolCalls ==
    { ToolCall([url |-> UA, name |-> "old"], "ide"),
      ToolCall([url |-> UAsp, name |-> "new"], "cli") }

\* the number of calls of one run whose sessions overlap
MaxSessions == 3

\* the files whose write may fail during an export
FailingChoices == {{}, {"programming"}}

\* the bounds of the pages asked for
MaxPage == 2
MaxPageSize == 3

\* get_tools(category, featured, page, page_size, search, sort_by)
ToolQuery(category, featured, search, sort_by, page, page_size) ==
    [category |-> category, featured |-> featured, search |-> search,
     sort_by |-> sort_by, page |-> page, page_size |-> page_size]

\* the search strings: none, empty, blank, and text in either case
Searches == {NullText, <<>>, <<" ">>, <<"a">>, <<"B">>, <<"c">>}

ToolQueries ==
    {ToolQuery(None, None, NullText, o, 1, MaxPageSize) :
        o \in {"score", "view_count", "created_at", "name"}}
    \cup {ToolQuery(None, None, NullText, "score", p, z) :
             p \in 1..MaxPage, z \in 1..MaxPageSize}
    \cup {ToolQuery(None, None, x, "score", 1, MaxPageSize) : x \in Searches}
    \cup {ToolQuery(c, f, NullText, "score", 1, MaxPageSize) :
             c \in {None, "ide"}, f \in {None, True, False}}

-----------------------------------------------------------------------------
(* State *)

Stores == [articles |-> articles, tools |-> tools,
           articleFiles |-> articleFiles, toolFiles |-> toolFiles]

NoCall == [op |-> "none", arg |-> EmptyDict, key |-> <<>>, ident |-> None,
           id |-> NoId, category |-> None, tool_tags |-> <<>>, ok |-> FALSE,
           result |-> Returned(<<>>, 0), fault |-> "none"]

\* no run of backup_to_github has begun; the repository holds one commit,
\* with an empty data/, which origin has too
IdleBackup ==
    [pc |-> "idle", run |-> <<>>, unpublished |-> FALSE,
     index |-> Tree(EmptyDict, EmptyDict),
     head |-> Tree(EmptyDict, EmptyDict),
     remote |-> Tree(EmptyDict, EmptyDict)]

\* no relational call is in flight
NoSessions == EmptyDict

Init ==
    /\ articles = <<>>
    /\ tools = <<>>
    /\ articleFiles = EmptyDict
    /\ toolFiles = EmptyDict
    /\ now = ProducerTime
    /\ last = NoCall
    /\ pre = [articles |-> <<>>, tools |-> <<>>,
              articleFiles |-> EmptyDict, toolFiles |-> EmptyDict]
    /\ backup = IdleBackup
    /\ sessions = NoSessions

-----------------------------------------------------------------------------
(* Operations of the relational store *)

\* DatabaseWriteService.archive_article_to_category
ArchiveArticleFrom(calls) ==
    \E c \in calls :
        LET r == ArchiveArticleTxn(articles, c.article, c.category, c.tool_tags, now + 1)
            \* datetime.now() is read once the url has passed the check
            read == Strip(Get(c.article, "url", <<>>)) # <<>>
        IN  /\ read => now < MaxNow
            /\ articles' = r.rows
            /\ now' = IF read THEN now + 1 ELSE now
            /\ last' = [NoCall EXCEPT !.op = "archive_article", !.arg = c.article,
                            !.category = c.category, !.tool_tags = c.tool_tags,
                            !.ok = r.ok]
            /\ pre' = Stores
            /\ UNCHANGED <<backup, sessions, tools, articleFiles, toolFiles>>

ArchiveArticle == ArchiveArticleFrom(ArticleCalls)

\* DatabaseDataService.increment_article_view_count
IncrementArticleViewCount ==
    \E url \in UrlArgs :
        LET r == IncrementArticleTxn(articles, url)
        IN  /\ \A i \in ArticlesWithUrl(articles, url) : articles[i].view_count < MaxViews
            /\ articles' = r.rows
            /\ last' = [NoCall EXCEPT !.op = "increment_article", !.key = url, !.ok = r.ok]
            /\ pre' = Stores
            /\ UNCHANGED <<backup, sessions, tools, articleFiles, toolFiles, now>>

\* DatabaseWriteService.delete_article_from_all_categories
DeleteArticle ==
    \E url \in UrlArgs :
        LET r == DeleteArticleTxn(articles, url)
        IN  /\ articles' = r.rows
            /\ last' = [NoCall EXCEPT !.op = "delete_article", !.key = url, !.ok = r.ok]
            /\ pre' = Stores
            /\ UNCHANGED <<backup, sessions, tools, articleFiles, toolFiles, now>>

\* DatabaseWriteService.archive_tool_to_category
ArchiveToolFrom(calls) ==
    \E c \in calls :
        LET r == ArchiveToolTxn(tools, c.tool, c.category)
        IN  /\ now < MaxNow
            /\ tools' = r.rows
            /\ now' = now + 1
            /\ last' = [NoCall EXCEPT !.op = "archive_tool", !.arg = c.tool,
                            !.category = c.category, !.ok = r.ok]
            /\ pre' = Stores
            /\ UNCHANGED <<backup, sessions, articles, articleFiles, toolFiles>>

ArchiveTool == ArchiveToolFrom(ToolCalls)

\* DatabaseWriteService.archive_article_to_category on a database that may
\* fail the call
ArchiveArticleFault ==
    \E c \in AdapterArticleCalls, fault \in Faults :
        LET r == ArchiveArticleSession(articles, c.article, c.category, c.tool_tags,
                                       now + 1, fault)
            \* datetime.now() is read after the lookup has returned
            read == Strip(Get(c.article, "url", <<>>)) # <<>> /\ fault # "lookup"
        IN  /\ read => now < MaxNow
            /\ articles' = r.rows
            /\ now' = IF read THEN now + 1 ELSE now
            /\ last' = [NoCall EXCEPT !.op = "archive_article", !.arg = c.article,
                            !.category = c.category, !.tool_tags = c.tool_tags,
                            !.ok = r.ok, !.fault = fault,
                            !.result = IF r.raised THEN Raised ELSE Returned(<<>>, 0)]
            /\ pre' = Stores
            /\ UNCHANGED <<backup, sessions, tools, articleFiles, toolFiles>>

\* DatabaseWriteService.archive_tool_to_category on a database that may fail
\* the call
ArchiveToolFault ==
    \E c \in AdapterToolCalls, fault \in Faults :
        LET r == ArchiveToolSession(tools, c.tool, c.category, fault)
        IN  /\ now < MaxNow
            /\ tools' = r.rows
            /\ now' = now + 1
            /\ last' = [NoCall EXCEPT !.op = "archive_tool", !.arg = c.tool,
                            !.category = c.category, !.ok = r.ok, !.fault = fault,
                            !.result = IF r.raised THEN Raised ELSE Returned(<<>>, 0)]
            /\ pre' = Stores
            /\ UNCHANGED <<backup, sessions, articles, articleFiles, toolFiles>>

\* DatabaseDataService.increment_tool_view_count
IncrementToolViewCount ==
    \E a \in ToolCounterArgs :
        LET r == IncrementToolTxn(tools, a.tool_id, a.tool_identifier)
        IN  /\ \A i \in Idx(tools) : tools[i].view_count < MaxViews
            /\ tools' = r.rows
            /\ last' = [NoCall EXCEPT !.op = "increment_tool", !.id = a.tool_id,
                            !.ident = a.tool_identifier, !.ok = r.ok]
            /\ pre' = Stores
            /\ UNCHANGED <<backup, sessions, articles, articleFiles, toolFiles, now>>

ArchiveArticleStore == ArchiveArticleFrom(StoreArticleCalls)

ArchiveToolStore == ArchiveToolFrom(StoreToolCalls)

ArchiveArticleSnapshot == ArchiveArticleFrom(SnapshotArticleCalls)

ArchiveToolSnapshot == ArchiveToolFrom(SnapshotToolCalls)

ArchiveArticleCounter == ArchiveArticleFrom(CounterArticleCalls)

ArchiveToolCounter == ArchiveToolFrom(CounterToolCalls)

-----------------------------------------------------------------------------
(* Operations on the file snapshot *)

\* WeeklyBackupService.export_data_to_json; every write succeeds. The tables
\* prompts, rules and resources, which no modelled operation writes, are
\* dumped whole into one file each and are not part of the state.
ExportDataToJson ==
    /\ articleFiles' = ExportArticles(articleFiles, articles, {})
    /\ toolFiles' = ExportTools(toolFiles, tools, {})
    /\ last' = [NoCall EXCEPT !.op = "export", !.ok = TRUE]
    /\ pre' = Stores
    /\ UNCHANGED <<backup, sessions, articles, tools, now>>

\* DataLoader.increment_article_view_count
LoaderIncrementArticleViewCount ==
    \E url \in UrlArgs :
        LET holders == FilesHolding(articleFiles, url)
        IN  /\ \A f \in holders : \A i \in 1..Len(articleFiles[f]) :
                   Get(articleFiles[f][i], "view_count", 0) < MaxViews
            /\ \/ /\ holders = {}
                  /\ articleFiles' = articleFiles
                  /\ last' = [NoCall EXCEPT !.op = "loader_increment_article",
                                  !.key = url, !.ok = FALSE]
               \* Path.glob yields the files in an order the code does not fix
               \/ \E f \in holders :
                      /\ articleFiles' = LoaderIncrementIn(articleFiles, f, url)
                      /\ last' = [NoCall EXCEPT !.op = "loader_increment_article",
                                      !.key = url, !.ok = TRUE]
            /\ pre' = Stores
            /\ UNCHANGED <<backup, sessions, articles, tools, toolFiles, now>>

\* DataLoader.increment_tool_view_count
LoaderIncrementToolViewCount ==
    \E tool_id \in ToolIdArgs :
        LET holders == FilesHoldingId(toolFiles, tool_id)
        IN  /\ \A f \in holders : \A i \in 1..Len(toolFiles[f]) :
                   Get(toolFiles[f][i], "view_count", 0) < MaxViews
            /\ \/ /\ holders = {}
                  /\ toolFiles' = toolFiles
                  /\ last' = [NoCall EXCEPT !.op = "loader_increment_tool",
                                  !.id = tool_id, !.ok = FALSE]
               \* Path.glob yields the files in an order the code does not fix
               \/ \E f \in holders :
                      /\ toolFiles' = LoaderIncrementToolIn(toolFiles, f, tool_id)
                      /\ last' = [NoCall EXCEPT !.op = "loader_increment_tool",
                                      !.id = tool_id, !.ok = TRUE]
            /\ pre' = Stores
            /\ UNCHANGED <<backup, sessions, articles, tools, articleFiles, now>>

\* DataLoader.archive_tool_to_category; the call reads no clock, the number
\* of calls of a run is bounded with the archive calls
LoaderArchiveToolFrom(calls) ==
    \E c \in calls :
        LET r == LoaderArchiveToolTxn(toolFiles, c.tool, c.category)
        IN  /\ now < MaxNow
            /\ toolFiles' = r.files
            /\ now' = now + 1
            /\ last' = [NoCall EXCEPT !.op = "loader_archive_tool", !.arg = c.tool,
                            !.category = c.category, !.ok = r.ok]
            /\ pre' = Stores
            /\ UNCHANGED <<backup, sessions, articles, tools, articleFiles>>

LoaderArchiveTool == LoaderArchiveToolFrom(LoaderToolCalls)

\* DataLoader.archive_article_to_category; datetime.now() is read on every call
LoaderArchiveArticleFrom(calls) ==
    \E c \in calls :
        LET r == LoaderArchiveArticleTxn(articleFiles, c.article, c.category,
                                         c.tool_tags, now + 1)
        IN  /\ now < MaxNow
            /\ articleFiles' = r.files
            /\ now' = now + 1
            /\ last' = [NoCall EXCEPT !.op = "loader_archive_article", !.arg = c.article,
                            !.category = c.category, !.tool_tags = c.tool_tags,
                            !.ok = r.ok]
            /\ pre' = Stores
            /\ UNCHANGED <<backup, sessions, articles, tools, toolFiles>>

LoaderArchiveArticle == LoaderArchiveArticleFrom(AdapterArticleCalls)

LoaderArchiveToolAdapter == LoaderArchiveToolFrom(AdapterToolCalls)

ArchiveArticleAdapter == ArchiveArticleFrom(AdapterArticleCalls)

ArchiveToolAdapter == ArchiveToolFrom(AdapterToolCalls)

ArchiveToolQuery == ArchiveToolFrom(QueryToolCalls)

-----------------------------------------------------------------------------
(* Queries *)

\* DatabaseDataService.get_tools
GetToolsDb ==
    \E q \in ToolQueries :
        \E r \in DbGetTools(tools, q) :
            /\ last' = [NoCall EXCEPT !.op = "get_tools_db", !.arg = q, !.result = r]
            /\ pre' = Stores
            /\ UNCHANGED <<backup, sessions, articles, tools, articleFiles, toolFiles, now>>

\* DataLoader.get_tools
GetToolsFile ==
    \E q \in ToolQueries :
        \E order \in GlobOrders(DOMAIN toolFiles) :
            /\ last' = [NoCall EXCEPT !.op = "get_tools_file", !.arg = q,
                            !.result = LoaderGetTools(toolFiles, order, q)]
            /\ pre' = Stores
            /\ UNCHANGED <<backup, sessions, articles, tools, articleFiles, toolFiles, now>>

-----------------------------------------------------------------------------
(* The run of backup_to_github *)

ArchiveArticleBackup == ArchiveArticleFrom(BackupArticleCalls)

\* the stage that ended is recorded and the run goes on at pc
Advance(pc, event) == [backup EXCEPT !.pc = pc, !.run = Append(@, event)]

\* lines 311-320: a run begins; without .git it ends at once
BackupStart ==
    /\ backup.pc = "idle"
    /\ \E is_repo \in BOOLEAN :
           backup' = [backup EXCEPT !.pc = AfterRepoCheck(is_repo), !.run = <<>>,
                                    !.unpublished = (backup.head # backup.remote)]
    /\ UNCHANGED <<articles, tools, articleFiles, toolFiles, now, last, pre, sessions>>

\* the files of the article categories whose write failed in an export
Unsaved(rows, outcome, failing) ==
    IF outcome = "articles_raise" THEN {}
    ELSE ({ArticleGroup(rows[i]) : i \in Idx(rows)} \ ExcludedArticleCategories)
             \cap failing

\* lines 322-326: stage 1, export_data_to_json
BackupExport ==
    /\ backup.pc = "export"
    /\ Len(backup.run) < MaxRunLen
    /\ \E outcome \in ExportOutcomes, failing \in FailingChoices :
           LET r == ExportDataToJsonTxn(articleFiles, toolFiles, articles, tools,
                                        outcome, failing)
           IN  /\ articleFiles' = r.articleFiles
               /\ toolFiles' = r.toolFiles
               /\ backup' = Advance(AfterExport(r.ok),
                                    Event(ExportCall, IF r.ok THEN 0 ELSE 1,
                                          Unsaved(articles, outcome, failing), {}))
               /\ last' = [NoCall EXCEPT !.op = "export", !.ok = r.ok]
               /\ pre' = Stores
    /\ UNCHANGED <<articles, tools, now, sessions>>

\* lines 328-340: stage 2, git status --porcelain data/
BackupStatus ==
    /\ backup.pc = "status"
    /\ Len(backup.run) < MaxRunLen
    /\ \E outcome \in GitOutcomes :
           LET code == RunGitCommand(outcome)
               stdout == IF code = 0
                         THEN PorcelainStatus(Tree(articleFiles, toolFiles), backup.head)
                         ELSE {}
           IN  backup' = Advance(AfterStatus(code, stdout),
                                 Event(GitStatus, code, {}, stdout))
    /\ UNCHANGED <<articles, tools, articleFiles, toolFiles, now, last, pre, sessions>>

\* lines 342-351: stage 3, git add data/
BackupAdd ==
    /\ backup.pc = "add"
    /\ Len(backup.run) < MaxRunLen
    /\ \E outcome \in GitOutcomes :
           LET code == RunGitCommand(outcome)
           IN  backup' = [Advance(AfterAdd(code), Event(GitAdd, code, {}, {}))
                             EXCEPT !.index = IF code = 0
                                              THEN Tree(articleFiles, toolFiles) ELSE @]
    /\ UNCHANGED <<articles, tools, articleFiles, toolFiles, now, last, pre, sessions>>

\* git commit exits with 1 ("nothing to commit") when the index holds what
\* the last commit holds
CommitCode(outcome, index, head) ==
    IF outcome = "ok" /\ index = head THEN 1 ELSE RunGitCommand(outcome)

\* lines 353-369: stage 4, git commit
BackupCommit ==
    /\ backup.pc = "commit"
    /\ Len(backup.run) < MaxRunLen
    /\ \E outcome \in GitOutcomes :
           LET code == CommitCode(outcome, backup.index, backup.head)
           IN  backup' = [Advance(AfterCommit(code), Event(GitCommit, code, {}, {}))
                             EXCEPT !.head = IF code = 0 THEN backup.index ELSE @]
    /\ UNCHANGED <<articles, tools, articleFiles, toolFiles, now, last, pre, sessions>>

\* lines 371-377: stage 5, git push origin master
BackupPush ==
    /\ backup.pc = "push"
    /\ Len(backup.run) < MaxRunLen
    /\ \E outcome \in GitOutcomes :
           LET code == RunGitCommand(outcome)
           IN  backup' = [Advance(AfterPush(code), Event(GitPush, code, {}, {}))
                             EXCEPT !.remote = IF code = 0 THEN backup.head ELSE @]
    /\ UNCHANGED <<articles, tools, articleFiles, toolFiles, now, last, pre, sessions>>

\* lines 388-393: git pull origin master --rebase after a failed push; the
\* commits it brings in do not touch data/
BackupPull ==
    /\ backup.pc = "pull"
    /\ Len(backup.run) < MaxRunLen
    /\ \E outcome \in GitOutcomes :
           LET code == RunGitCommand(outcome)
           IN  backup' = Advance(AfterPull(code), Event(GitPull, code, {}, {}))
    /\ UNCHANGED <<articles, tools, articleFiles, toolFiles, now, last, pre, sessions>>

\* lines 394-403: the second git push origin master
BackupRepush ==
    /\ backup.pc = "repush"
    /\ Len(backup.run) < MaxRunLen
    /\ \E outcome \in GitOutcomes :
           LET code == RunGitCommand(outcome)
           IN  backup' = [Advance(AfterRepush(code), Event(GitPush, code, {}, {}))
                             EXCEPT !.remote = IF code = 0 THEN backup.head ELSE @]
    /\ UNCHANGED <<articles, tools, articleFiles, toolFiles, now, last, pre, sessions>>

-----------------------------------------------------------------------------
(* Calls in flight: each call has its own session and is suspended at the *)
(* await of its lookup and at the await of its commit                     *)

\* a call suspended at its commit
Session(op, arg, category, tool_tags, key, existing, t) ==
    [op |-> op, pc |-> "commit", arg |-> arg, category |-> category,
     tool_tags |-> tool_tags, key |-> key, existing |-> existing, t |-> t,
     ok |-> FALSE, order |-> 0]

\* the calls suspended at the commit of op
AtCommit(op) ==
    {s \in DOMAIN sessions : sessions[s].op = op /\ sessions[s].pc = "commit"}

\* the number of commits so far
Committed == Cardinality({s \in DOMAIN sessions : sessions[s].order > 0})

\* the call of session s returns ok after its commit
Return(s, ok) ==
    [sessions EXCEPT ![s].pc = "done", ![s].ok = ok, ![s].order = Committed + 1]

\* archive_article_to_category, lines 42-55: the lookup and the clock
LookupArticle ==
    /\ Len(sessions) < MaxSessions
    /\ now < MaxNow
    /\ \E c \in ConcurrentArticleCalls :
           LET url == Strip(Get(c.article, "url", <<>>))
               existing == Loaded(articles, ArticlesWithUrl(articles, url))
           IN  sessions' = Append(sessions,
                                  Session("archive_article", c.article, c.category,
                                          c.tool_tags, url, existing, now + 1))
    /\ now' = now + 1
    /\ UNCHANGED <<backup, articles, tools, articleFiles, toolFiles, last, pre>>

\* archive_article_to_category, lines 56-101: the write and the commit
CommitArchiveArticle ==
    /\ \E s \in AtCommit("archive_article") :
           LET c == sessions[s]
               r == CommitArticle(articles, c.existing, c.key, c.arg, c.category,
                                  c.tool_tags, c.t)
           IN  /\ articles' = r.rows
               /\ sessions' = Return(s, r.ok)
    /\ UNCHANGED <<backup, tools, articleFiles, toolFiles, now, last, pre>>

\* archive_tool_to_category, lines 117-134: the lookup
LookupTool ==
    /\ Len(sessions) < MaxSessions
    /\ \E c \in ConcurrentToolCalls :
           LET url == Strip(Get(c.tool, "url", <<>>))
               identifier == Get(c.tool, "identifier", None)
               existing == Loaded(tools, ToolLookup(tools, identifier, url))
           IN  sessions' = Append(sessions,
                                  Session("archive_tool", c.tool, c.category, <<>>,
                                          url, existing, now))
    /\ UNCHANGED <<backup, articles, tools, articleFiles, toolFiles, now, last, pre>>

\* archive_tool_to_category, lines 136-172: the write and the commit
CommitArchiveTool ==
    /\ \E s \in AtCommit("archive_tool") :
           LET c == sessions[s]
               r == CommitTool(tools, c.existing, Get(c.arg, "identifier", None),
                               c.key, c.arg, c.category)
           IN  /\ tools' = r.rows
               /\ sessions' = Return(s, r.ok)
    /\ UNCHANGED <<backup, articles, articleFiles, toolFiles, now, last, pre>>

\* increment_article_view_count, lines 608-612: the read; a url that is not
\* stored returns False at once (line 616)
ReadViewCount ==
    /\ Len(sessions) < MaxSessions
    /\ \E url \in {UA} :
           LET article == Loaded(articles, ArticlesWithUrl(articles, url))
               call == Session("increment_article", EmptyDict, None, <<>>, url,
                               article, now)
           IN  /\ article # <<>> => article[1].view_count < MaxViews
               /\ sessions' = Append(sessions,
                                      IF article = <<>>
                                      THEN [call EXCEPT !.pc = "done"]
                                      ELSE call)
    /\ UNCHANGED <<backup, articles, tools, articleFiles, toolFiles, now, last, pre>>

\* increment_article_view_count, lines 613-615: the write and the commit
CommitViewCount ==
    /\ \E s \in AtCommit("increment_article") :
           LET r == CommitIncrement(articles, sessions[s].existing[1])
           IN  /\ articles' = r.rows
               /\ sessions' = Return(s, r.ok)
    /\ UNCHANGED <<backup, tools, articleFiles, toolFiles, now, last, pre>>

-----------------------------------------------------------------------------
(* Specifications *)

\* the relational operations on table articles
Next ==
    \/ ArchiveArticle
    \/ IncrementArticleViewCount
    \/ DeleteArticle

Spec == Init /\ [][Next]_vars

\* the relational operations on table tools
NextTools ==
    \/ ArchiveTool
    \/ IncrementToolViewCount

SpecTools == Init /\ [][NextTools]_vars

\* the relational operations on both tables
NextStore ==
    \/ ArchiveArticleStore
    \/ ArchiveToolStore
    \/ IncrementArticleViewCount
    \/ IncrementToolViewCount
    \/ DeleteArticle

SpecStore == Init /\ [][NextStore]_vars

\* the relational store, its export and the counter of the file snapshot
InitSnapshot ==
    /\ articles = <<>>
    /\ tools = <<>>
    /\ articleFiles \in SnapshotInitFiles
    /\ toolFiles = EmptyDict
    /\ now = ProducerTime
    /\ last = NoCall
    /\ pre = [articles |-> <<>>, tools |-> <<>>,
              articleFiles |-> articleFiles, toolFiles |-> EmptyDict]
    /\ backup = IdleBackup
    /\ sessions = NoSessions

NextSnapshot ==
    \/ ArchiveArticleSnapshot
    \/ ArchiveToolSnapshot
    \/ DeleteArticle
    \/ ExportDataToJson

SpecSnapshot == InitSnapshot /\ [][NextSnapshot]_vars

\* the view counters of the two adapters. Article calls and Tool calls work
\* on different tables and different directories, so a run counts the views
\* of one kind: interleaving the two kinds reaches no other value of either.
ArticleRun == tools = <<>>

ToolRun == articles = <<>>

NextCounter ==
    \/ ArticleRun /\ ArchiveArticleCounter
    \/ ArticleRun /\ IncrementArticleViewCount
    \/ ArticleRun /\ LoaderIncrementArticleViewCount
    \/ ToolRun /\ ArchiveToolCounter
    \/ ToolRun /\ IncrementToolViewCount
    \/ ToolRun /\ LoaderIncrementToolViewCount
    \/ ExportDataToJson

SpecCounter == InitSnapshot /\ [][NextCounter]_vars

\* the Tool queries of the two adapters over stores that archive calls and
\* exports have filled
NextToolQuery ==
    \/ ArchiveToolQuery
    \/ LoaderArchiveTool
    \/ ExportDataToJson
    \/ GetToolsDb
    \/ GetToolsFile

SpecToolQuery == Init /\ [][NextToolQuery]_vars

\* the archive calls of the two adapters, each on its own store
NextArchive ==
    \/ ArchiveArticleAdapter
    \/ ArchiveToolAdapter
    \/ LoaderArchiveArticle
    \/ LoaderArchiveToolAdapter

SpecArchive == Init /\ [][NextArchive]_vars

\* the archive calls of the relational adapter on a database that may fail
\* any of them
NextFault ==
    \/ ArchiveArticleFault
    \/ ArchiveToolFault

SpecFault == Init /\ [][NextFault]_vars

\* the stages of a run that has begun
BackupRun ==
    \/ BackupExport
    \/ BackupStatus
    \/ BackupAdd
    \/ BackupCommit
    \/ BackupPush
    \/ BackupPull
    \/ BackupRepush

\* the runs of backup_to_github, with archive calls before, between and
\* during them
NextBackup ==
    \/ ArchiveArticleBackup
    \/ BackupStart
    \/ BackupRun

SpecBackup == Init /\ [][NextBackup]_vars

\* the first record is archived, before or during a run
ArchiveFirstArticle ==
    /\ articles = <<>>
    /\ ArchiveArticleBackup

\* the runs of backup_to_github over an empty store and over its first record
NextBackupFair ==
    \/ ArchiveFirstArticle
    \/ BackupStart
    \/ BackupRun

\* every awaited stage of a run returns: the export awaits the local
\* database, a git command is killed after timeout=300
SpecBackupFair == Init /\ [][NextBackupFair]_vars /\ WF_vars(BackupRun)

\* archive calls and view counts whose sessions overlap
NextConcurrent ==
    \/ LookupArticle
    \/ CommitArchiveArticle
    \/ LookupTool
    \/ CommitArchiveTool
    \/ ReadViewCount
    \/ CommitViewCount

SpecConcurrent == Init /\ [][NextConcurrent]_vars

-----------------------------------------------------------------------------
(* Vocabulary of the properties *)

\* the url under which an archive call stores or finds its row
KeyOf(record) == Strip(Get(record, "url", <<>>))

\* the row of a table with a given url (tables of this section hold one)
RowWithUrl(rows, url) == rows[CHOOSE i \in Idx(rows) : rows[i].url = url]

HasUrl(rows, url) == \E i \in Idx(rows) : rows[i].url = url

\* the last call was a successful archive of an Article whose url was stored
ArticleUpdated ==
    /\ last.op = "archive_article"
    /\ last.ok
    /\ HasUrl(pre.articles, KeyOf(last.arg))

\* the columns of an Article other than archived_at
ArticleColumnsButArchivedAt ==
    {"id", "title", "url", "summary", "source", "category", "published_time",
     "created_at", "view_count", "score", "tags", "tool_tags", "extra_data"}

-----------------------------------------------------------------------------
(* C1 *)

\* C1: after any sequence of archive_article_to_category,
\* increment_article_view_count and delete_article_from_all_categories calls,
\* no two stored Article rows have the same url.
C1_ArticleUrlUnique ==
    \A i, j \in Idx(articles) : articles[i].url = articles[j].url => i = j

\* a second row is stored, and the last call archived an already stored url
\* that it was given with surrounding whitespace
C1_Witness ==
    /\ ArticleUpdated
    /\ last.arg.url # KeyOf(last.arg)
    /\ Len(articles) = 2

-----------------------------------------------------------------------------
(* C2 *)

\* C2: after any sequence of archive_tool_to_category calls, no two stored
\* Tool rows have the same identifier and no two have the same url.
C2_ToolNaturalKeyUnique ==
    \A i, j \in Idx(tools) :
        i # j =>
            /\ tools[i].identifier = None \/ tools[i].identifier # tools[j].identifier
            /\ tools[i].url # tools[j].url

-----------------------------------------------------------------------------
(* C3 *)

\* two successive successful archive_article_to_category calls with the same
\* record, category and tool tags
ArchivedTwiceIdentically ==
    /\ last.op = "archive_article" /\ last.ok
    /\ last'.op = "archive_article" /\ last'.ok
    /\ last'.arg = last.arg
    /\ last'.category = last.category
    /\ last'.tool_tags = last.tool_tags

\* C3: archiving the same natural key twice with identical data yields
\* exactly one stored record, whose fixed fields are unchanged by the second
\* call and whose archived_at is the time of the second call.
C3_IdempotentArchive ==
    [][ArchivedTwiceIdentically =>
        LET url == KeyOf(last.arg)
        IN  /\ Cardinality(ArticlesWithUrl(articles', url)) = 1
            /\ \A k \in ArticleColumnsButArchivedAt :
                   RowWithUrl(articles', url)[k] = RowWithUrl(articles, url)[k]
            /\ RowWithUrl(articles', url).archived_at = now'
            /\ now' > now]_vars

-----------------------------------------------------------------------------
(* C4 *)

\* the fixed fields of an Article and of a Tool
ArticleFixedFields ==
    {"title", "url", "summary", "source", "category", "published_time",
     "created_at", "archived_at", "view_count", "score", "tags", "tool_tags"}

ToolFixedFields ==
    {"identifier", "name", "url", "description", "category", "is_featured",
     "view_count", "score", "created_at"}

\* the last call was a successful archive of a Tool that was stored
ToolUpdated ==
    /\ last.op = "archive_tool"
    /\ last.ok
    /\ ToolLookup(pre.tools, Get(last.arg, "identifier", None), KeyOf(last.arg)) # {}

ToolIndex ==
    CHOOSE i \in ToolLookup(pre.tools, Get(last.arg, "identifier", None), KeyOf(last.arg)) : TRUE

\* C4 as stated: when an existing natural key is archived again, every fixed
\* field that is absent from the new record keeps its stored value.
C4_AbsentFieldsKept_Original ==
    /\ ArticleUpdated =>
           \A k \in ArticleFixedFields \ DOMAIN last.arg :
               RowWithUrl(articles, KeyOf(last.arg))[k]
                   = RowWithUrl(pre.articles, KeyOf(last.arg))[k]
    /\ ToolUpdated =>
           \A k \in ToolFixedFields \ DOMAIN last.arg :
               tools[ToolIndex][k] = pre.tools[ToolIndex][k]

\* the fields the call itself sets: archived_at and category always, tool_tags
\* when the call passes tool tags
SetByCall == {"archived_at", "category"}
                 \cup (IF last.tool_tags # <<>> THEN {"tool_tags"} ELSE {})

\* C4 as amended: when an existing natural key is archived again, every fixed
\* field that is absent from the new record keeps its stored value, except
\* archived_at and category, which the call always sets, and tool_tags, which
\* it sets when it is given tool tags.
C4_AbsentFieldsKept ==
    /\ ArticleUpdated =>
           \A k \in (ArticleFixedFields \ DOMAIN last.arg) \ SetByCall :
               RowWithUrl(articles, KeyOf(last.arg))[k]
                   = RowWithUrl(pre.articles, KeyOf(last.arg))[k]
    /\ ToolUpdated =>
           \A k \in (ToolFixedFields \ DOMAIN last.arg) \ SetByCall :
               tools[ToolIndex][k] = pre.tools[ToolIndex][k]

\* {url, title: "old", score: 5} was archived and then {url, title: "new"}:
\* the row holds title "new" and score 5
C4_Witness ==
    /\ ArticleUpdated
    /\ last.arg = [url |-> UA, title |-> "new"]
    /\ RowWithUrl(pre.articles, UA).title = "old"
    /\ RowWithUrl(articles, UA).title = "new"
    /\ RowWithUrl(articles, UA).score = 5

-----------------------------------------------------------------------------
(* C5 *)

\* C5: when an existing natural key is archived again, every field present
\* in the new record, fixed or extension, is stored with the new value and a
\* later query returns it with that value.
C5_ReArchiveStoresEveryField ==
    ArticleUpdated =>
        LET d == ArticleToDict(RowWithUrl(articles, KeyOf(last.arg)))
        IN  \A k \in (DOMAIN last.arg) \ {"url"} :
                k \in DOMAIN d /\ d[k] = last.arg[k]

-----------------------------------------------------------------------------
(* C6 *)

\* the records of a snapshot directory, as <<file, position>>
RecordsOf(files) ==
    UNION {{<<f, i>> : i \in 1..Len(files[f])} : f \in DOMAIN files}

-----------------------------------------------------------------------------
(* C7 *)

\* C7: for a record that stays stored, view_count never decreases across
\* archive and increment calls.
C7_ViewCountMonotone ==
    /\ last.op \in {"archive_article", "increment_article"} =>
           \A i \in Idx(pre.articles) :
               HasUrl(articles, pre.articles[i].url) =>
                   RowWithUrl(articles, pre.articles[i].url).view_count
                       >= pre.articles[i].view_count
    /\ last.op \in {"archive_tool", "increment_tool"} =>
           \A i \in Idx(pre.tools) : tools[i].view_count >= pre.tools[i].view_count

-----------------------------------------------------------------------------
(* C8, C9, C10 *)

\* the ephemeral candidate-pool categories
EphemeralCategories == {"ai_candidates", "ai_articles"}

Exported == last.op = "export" /\ last.ok

\* the records of the article snapshot outside the ephemeral collections
SnapshotArticles ==
    {p \in RecordsOf(articleFiles) : p[1] \notin EphemeralCategories}

SnapshotArticle(p) == articleFiles[p[1]][p[2]]

\* the Article rows outside the ephemeral categories
ExportableArticles ==
    {i \in Idx(articles) : articles[i].category \notin EphemeralCategories}

\* the records of the tool snapshot, as <<file, position>>
SnapshotTools ==
    UNION {{<<f, i>> : i \in 1..Len(toolFiles[f])} : f \in DOMAIN toolFiles}

SnapshotTool(p) == toolFiles[p[1]][p[2]]

\* a snapshot record and a Tool row have the same natural key: the
\* identifier when either has one, the url otherwise
SameToolKey(d, row) ==
    IF d.identifier # None \/ row.identifier # None
    THEN d.identifier = row.identifier
    ELSE d.url = row.url

\* C8: after export, every relational row outside the ephemeral categories
\* has exactly one snapshot record with its natural key and with equal
\* fixed-field values, and the record count per kind matches.
C8_ExportRoundTrip ==
    Exported =>
        /\ \A i \in ExportableArticles :
               LET same == {p \in SnapshotArticles :
                                SnapshotArticle(p).url = articles[i].url}
               IN  /\ Cardinality(same) = 1
                   /\ \A p \in same : \A k \in ArticleFixedFields :
                          SnapshotArticle(p)[k] = articles[i][k]
        /\ Cardinality(SnapshotArticles) = Cardinality(ExportableArticles)
        /\ \A i \in Idx(tools) :
               LET same == {p \in SnapshotTools : SameToolKey(SnapshotTool(p), tools[i])}
               IN  /\ Cardinality(same) = 1
                   /\ \A p \in same : \A k \in ToolFixedFields :
                          SnapshotTool(p)[k] = tools[i][k]
        /\ Cardinality(SnapshotTools) = Len(tools)

\* C9: after every successful export, whatever archive, re-categorise and
\* delete calls and earlier exports preceded it, the snapshot keeps no record
\* that the store no longer has or no longer places in that collection: every
\* key held in a snapshot collection is held in the store, which groups it
\* there. (That every stored key is held in the snapshot is C8.)
C9_SnapshotKeysEqualStore ==
    Exported =>
        /\ \A p \in SnapshotArticles :
               \E i \in ExportableArticles :
                   /\ articles[i].url = SnapshotArticle(p).url
                   /\ ArticleGroup(articles[i]) = p[1]
        /\ \A p \in SnapshotTools :
               \E i \in Idx(tools) :
                   /\ SameToolKey(SnapshotTool(p), tools[i])
                   /\ p[1] = IF tools[i].is_featured THEN "featured" ELSE ToolGroup(tools[i])

\* C10: export writes no snapshot collection for an ephemeral category: a
\* file of that name is neither created nor changed, and no Article row of
\* such a category is in any other snapshot file.
C10_EphemeralNotExported ==
    /\ Exported =>
           \A c \in EphemeralCategories :
               /\ c \in DOMAIN articleFiles <=> c \in DOMAIN pre.articleFiles
               /\ c \in DOMAIN articleFiles => articleFiles[c] = pre.articleFiles[c]
    /\ \A p \in SnapshotArticles :
           Get(SnapshotArticle(p), "category", None) \notin EphemeralCategories

\* an export that wrote a collection while the store held a row of each
\* ephemeral category and the candidate pool file existed
C10_Witness ==
    /\ Exported
    /\ "ai_candidates" \in DOMAIN articleFiles
    /\ \E i \in Idx(articles) : articles[i].category \in EphemeralCategories
    /\ articleFiles # pre.articleFiles

-----------------------------------------------------------------------------
(* C11 *)

\* two Tool records of the file snapshot have the same natural key: the
\* identifier when either has one, the url otherwise
SameFileToolKey(d, e) ==
    IF Get(d, "identifier", None) # None \/ Get(e, "identifier", None) # None
    THEN Get(d, "identifier", None) = Get(e, "identifier", None)
    ELSE ExactUrl(d) = ExactUrl(e)

\* the last call was a file-snapshot Tool query over every collection, with
\* no filter and no search, that returned all its records on one page
CrossCategoryToolQuery ==
    /\ last.op = "get_tools_file"
    /\ last.arg.category = None /\ last.arg.featured = None
    /\ last.arg.search = NullText
    /\ ~last.result.raised
    /\ Len(last.result.records) = last.result.total

\* the records of featured.json whose natural key a category collection holds too
FeaturedAndCategory ==
    {i \in 1..Len(LoadJsonFile(toolFiles, "featured")) :
        \E f \in (DOMAIN toolFiles) \ {"featured"} : \E j \in 1..Len(toolFiles[f]) :
            SameFileToolKey(toolFiles["featured"][i], toolFiles[f][j])}

\* C11: when the featured collection and a category collection each hold a
\* record with the same natural key, a cross-category file-snapshot Tool
\* query returns exactly one record for that key, the featured collection's.
C11_FeaturedCopyPreferred ==
    CrossCategoryToolQuery =>
        \A i \in FeaturedAndCategory :
            LET same == {r \in 1..Len(last.result.records) :
                            SameFileToolKey(last.result.records[r], toolFiles["featured"][i])}
            IN  /\ Cardinality(same) = 1
                /\ \A r \in same : last.result.records[r] = toolFiles["featured"][i]

-----------------------------------------------------------------------------
(* C12 *)

\* the arguments of a query, asking for everything on one page
WholeList(q) ==
    [q EXCEPT !.page = 1,
              !.page_size = Len(tools) + Cardinality(RecordsOf(toolFiles))
                                + Len(articles) + Cardinality(RecordsOf(articleFiles)) + 1]

\* positions [(page-1)*page_size, page*page_size) of a list, clipped to its length
SliceOf(full, page, page_size) ==
    LET start == (page - 1) * page_size
        left == Len(full) - start
        n == IF left < 0 THEN 0 ELSE IF left < page_size THEN left ELSE page_size
    IN  [i \in 1..n |-> full[start + i]]

\* what C12 says of a result, full being the result of the same query asked
\* for on one page: the same outcome, the same total, and the page's slice
PageOf(result, full, q) ==
    /\ result.raised = full.raised
    /\ ~result.raised =>
           /\ result.total = Len(full.records)
           /\ result.total = full.total
           /\ result.records = SliceOf(full.records, q.page, q.page_size)

\* C12: for every page >= 1 and page_size >= 1 a Tool query returns, in
\* either adapter, the total of the records that pass filter and search,
\* whatever the page, and the records at positions [(page-1)*page_size,
\* page*page_size) of the sorted filtered list, clipped to its length; a page
\* beyond the end is empty and is no error.
C12_Pagination ==
    /\ last.op = "get_tools_db" =>
           /\ ~last.result.raised
           /\ \E full \in DbGetTools(tools, WholeList(last.arg)) :
                  PageOf(last.result, full, last.arg)
    /\ last.op = "get_tools_file" =>
           \E order \in GlobOrders(DOMAIN toolFiles) :
               PageOf(last.result, LoaderGetTools(toolFiles, order, WholeList(last.arg)),
                      last.arg)

\* three records pass, and the second page of two holds the third alone
C12_Witness ==
    /\ last.op \in {"get_tools_db", "get_tools_file"}
    /\ ~last.result.raised
    /\ last.result.total = 3
    /\ last.arg.page = 2 /\ last.arg.page_size = 2
    /\ Len(last.result.records) = 1

-----------------------------------------------------------------------------
(* C13 *)

\* the last call was a query with sort_by = "score" that returned
ScoreQuery ==
    /\ last.op \in {"get_tools_db", "get_tools_file", "get_articles_db", "get_articles_file"}
    /\ last.arg.sort_by = "score"
    /\ ~last.result.raised

\* C13: a query with sort_by = score, for Tools and for Articles and in both
\* adapters, returns its records by score descending, equal scores by id
\* descending: a higher score always precedes a lower one.
C13_ScoreOrder ==
    ScoreQuery =>
        \A a, b \in 1..Len(last.result.records) :
            a < b =>
                LET x == last.result.records[a]
                    y == last.result.records[b]
                IN  \/ Get(x, "score", 0) > Get(y, "score", 0)
                    \/ /\ Get(x, "score", 0) = Get(y, "score", 0)
                       /\ Get(x, "id", NoId) > Get(y, "id", NoId)

-----------------------------------------------------------------------------
(* C14 *)

\* the last call was a Tool query with sort_by = "view_count" that returned
ViewCountQuery ==
    /\ last.op \in {"get_tools_db", "get_tools_file"}
    /\ last.arg.sort_by = "view_count"
    /\ ~last.result.raised

\* C14: a Tool query with sort_by = view_count, in both adapters, returns
\* its records by view_count descending, and among equal view counts the
\* record with the older created_at first.
C14_ViewCountOrder ==
    ViewCountQuery =>
        \A a, b \in 1..Len(last.result.records) :
            a < b =>
                LET x == last.result.records[a]
                    y == last.result.records[b]
                IN  \/ Get(x, "view_count", 0) > Get(y, "view_count", 0)
                    \/ /\ Get(x, "view_count", 0) = Get(y, "view_count", 0)
                       /\ CreatedAtOrEpoch(x) <= CreatedAtOrEpoch(y)

-----------------------------------------------------------------------------
(* C15 *)

\* a search string that is given and is empty or only whitespace
BlankSearch(search) == search # NullText /\ Strip(search) = <<>>

\* the same query with no search string
WithoutSearch(q) == [q EXCEPT !.search = NullText]

\* search is a substring, in any case, of the Tool's name or description
ToolSearched(t, search) ==
    \E field \in {"name", "description"} :
        /\ Get(t, field, NullText) # NullText
        /\ Contains(Lower(t[field]), Lower(search))

\* what C15 says of the result of a query with a non-blank search, base being
\* the result of the same query asked without search and on one page
SearchOf(result, base, search) ==
    /\ ~result.raised
    /\ \A i \in 1..Len(result.records) : ToolSearched(result.records[i], search)
    /\ result.total =
           Cardinality({i \in 1..Len(base.records) : ToolSearched(base.records[i], search)})

\* C15: a Tool query whose search string is empty or only whitespace returns
\* the records and the total of the same query with no search string, in
\* both adapters; a query with any other search string returns the records
\* that hold it, in any case, as a substring of name or description.
C15_Search ==
    /\ (last.op = "get_tools_db" /\ BlankSearch(last.arg.search)) =>
           last.result \in DbGetTools(tools, WithoutSearch(last.arg))
    /\ (last.op = "get_tools_file" /\ BlankSearch(last.arg.search)) =>
           \E order \in GlobOrders(DOMAIN toolFiles) :
               last.result = LoaderGetTools(toolFiles, order, WithoutSearch(last.arg))
    /\ (last.op = "get_tools_db" /\ Truthy(last.arg.search)
            /\ ~BlankSearch(last.arg.search)) =>
           \E base \in DbGetTools(tools, WholeList(WithoutSearch(last.arg))) :
               SearchOf(last.result, base, last.arg.search)
    /\ (last.op = "get_tools_file" /\ Truthy(last.arg.search)
            /\ ~BlankSearch(last.arg.search)) =>
           \E order \in GlobOrders(DOMAIN toolFiles) :
               SearchOf(last.result,
                        LoaderGetTools(toolFiles, order, WholeList(WithoutSearch(last.arg))),
                        last.arg.search)

-----------------------------------------------------------------------------
(* C16 *)

\* the file snapshot holds the rows of the tools table, each once and each
\* with its id
SameToolRecords ==
    \E order \in GlobOrders(DOMAIN toolFiles) :
        LET all == LoadAll(toolFiles, order)
        IN  /\ tools # <<>>
            /\ Len(all) = Len(tools)
            /\ {all[i] : i \in 1..Len(all)} = {ToolToDict(tools[i]) : i \in 1..Len(tools)}
            /\ \A i \in 1..Len(all) : Get(all[i], "id", NoId) # NoId
            /\ \A i, j \in 1..Len(all) : all[i].id = all[j].id => i = j

\* C16: when the relational store and the file snapshot hold the same Tool
\* records, duplicate-free and each with an id, DataLoader.get_tools and
\* DatabaseDataService.get_tools return, for the same arguments, the same
\* total and the same ordered sequence of records.
C16_AdaptersAgree ==
    SameToolRecords =>
        /\ last.op = "get_tools_file" => last.result \in DbGetTools(tools, last.arg)
        /\ last.op = "get_tools_db" =>
               \E order \in GlobOrders(DOMAIN toolFiles) :
                   last.result = LoaderGetTools(toolFiles, order, last.arg)

-----------------------------------------------------------------------------
(* C17 *)

\* a text that is missing, None, empty or only whitespace
BlankText(d, k) == Get(d, k, NullText) = NullText \/ Strip(d[k]) = <<>>

\* the natural key of an Article record is unusable
BlankArticleKey(article) == BlankText(article, "url")

\* the natural key of a Tool record is unusable: neither url nor identifier
BlankToolKey(tool) ==
    /\ BlankText(tool, "url")
    /\ Get(tool, "identifier", None) \in {None, "", " "}

\* C17: an archive call whose natural key is missing, empty or only
\* whitespace (url for an Article; url and identifier for a Tool) returns
\* failure and leaves every store as it was before the call, in the
\* relational adapter and in the file-snapshot adapter.
C17_BlankKeyRejected ==
    /\ (last.op \in {"archive_article", "loader_archive_article"}
            /\ BlankArticleKey(last.arg)) =>
           ~last.ok /\ Stores = pre
    /\ (last.op \in {"archive_tool", "loader_archive_tool"}
            /\ BlankToolKey(last.arg)) =>
           ~last.ok /\ Stores = pre

-----------------------------------------------------------------------------
(* C18 *)

\* the rows the lookup of the last archive call found in the store as it
\* was before the call
FoundBefore ==
    IF last.op = "archive_article"
    THEN ArticlesWithUrl(pre.articles, Strip(Get(last.arg, "url", <<>>)))
    ELSE ToolLookup(pre.tools, Get(last.arg, "identifier", None),
                    Strip(Get(last.arg, "url", <<>>)))

\* the last archive call had a usable key, met no failure, and its record
\* was in the store already
ArchivedExisting ==
    /\ last.op \in {"archive_article", "archive_tool"}
    /\ last.fault = "none"
    /\ IF last.op = "archive_article" THEN ~BlankArticleKey(last.arg)
       ELSE ~BlankToolKey(last.arg)
    /\ Cardinality(FoundBefore) = 1

\* the row found before the call is the one row the call has written
UpdatedInPlace ==
    \A i \in FoundBefore :
        IF last.op = "archive_article"
        THEN /\ Len(articles) = Len(pre.articles)
             /\ articles[i].archived_at = now
             /\ articles[i].category = last.category
             /\ \A j \in Idx(articles) : j # i => articles[j] = pre.articles[j]
        ELSE /\ Len(tools) = Len(pre.tools)
             /\ tools[i].category = last.category
             /\ \A j \in Idx(tools) : j # i => tools[j] = pre.tools[j]

-----------------------------------------------------------------------------
(* C19 *)

\* the records of the target file, as it was before the last call of the
\* file adapter, that hold exactly the url of the call's record
DuplicatesBefore ==
    LET files == IF last.op = "loader_archive_article" THEN pre.articleFiles
                 ELSE pre.toolFiles
        target == LoadJsonFile(files, last.category)
    IN  {target[i] : i \in {j \in 1..Len(target) : ExactUrl(target[j]) = ExactUrl(last.arg)}}

\* the relational adapter given the same two calls on an empty table: the
\* record d the file holds, then the record of the last call
ArticleSequence(d) ==
    LET first == ArchiveArticleTxn(<<>>, d, last.category, <<>>, now + 1)
    IN  ArchiveArticleTxn(first.rows, last.arg, last.category, last.tool_tags, now + 2)

ToolSequence(d) ==
    LET first == ArchiveToolTxn(<<>>, d, last.category)
    IN  ArchiveToolTxn(first.rows, last.arg, last.category)

\* C19: in the file-snapshot adapter an archive call whose exact url is
\* already in the target category's file returns False and leaves that file
\* and every other file unchanged; the relational adapter, given the same
\* calls, updates the one record and returns success.
C19_DuplicateOutcome ==
    /\ (last.op \in {"loader_archive_article", "loader_archive_tool"}
            /\ DuplicatesBefore # {}) =>
           ~last.ok /\ Stores = pre
    /\ last.op = "loader_archive_article" =>
           \A d \in DuplicatesBefore :
               /\ ArticleSequence(d).ok
               /\ Len(ArticleSequence(d).rows) = 1
               /\ ArticleSequence(d).rows[1].archived_at = now + 2
    /\ last.op = "loader_archive_tool" =>
           \A d \in DuplicatesBefore :
               /\ ToolSequence(d).ok
               /\ Len(ToolSequence(d).rows) = 1

-----------------------------------------------------------------------------
(* C20 *)

\* every row that held a created_at before the call is still there and
\* holds the same created_at
CreatedAtKept(before, after) ==
    \A i \in Idx(before) :
        before[i].created_at # NoTime =>
            i \in Idx(after) /\ after[i].created_at = before[i].created_at

\* C20: across the archive calls for one natural key the stored created_at
\* keeps the value of the first insert; an archive call changes it only
\* when the stored value is absent.
C20_CreatedAtPreserved ==
    /\ last.op = "archive_article" => CreatedAtKept(pre.articles, articles)
    /\ last.op = "archive_tool" => CreatedAtKept(pre.tools, tools)

-----------------------------------------------------------------------------
(* C21 *)

\* what C21 says of the record r that the last call inserted, the call
\* having read the clock at now
InsertedAsSpecified(r) ==
    LET created == IF Get(last.arg, "created_at", NoTime) # NoTime
                   THEN last.arg.created_at ELSE now
    IN  /\ Get(r, "created_at", NoTime) = created
        /\ Get(r, "published_time", NoTime) = Get(last.arg, "published_time", created)
        /\ Get(r, "archived_at", NoTime) = now
        /\ Get(r, "view_count", NoId) = Get(last.arg, "view_count", 0)
        /\ Get(r, "category", None) = last.category

\* the last call inserted an Article with a usable key into the table
InsertedRow ==
    /\ last.op = "archive_article"
    /\ last.ok
    /\ ~BlankArticleKey(last.arg)
    /\ ~HasUrl(pre.articles, Strip(last.arg.url))

\* the last call appended an Article with a usable key to its category file
InsertedFileRecord ==
    /\ last.op = "loader_archive_article"
    /\ last.ok
    /\ ~BlankArticleKey(last.arg)

\* C21: archiving an Article whose natural key is not stored yet inserts a
\* record with created_at = the producer's value or now, published_time =
\* the producer's value or, if absent, created_at, archived_at = now,
\* view_count = the producer's value or 0, and category = the target
\* category, in the relational adapter and in the file-snapshot adapter.
C21_InsertDefaults ==
    /\ InsertedRow =>
           \A i \in ArticlesWithUrl(articles, Strip(last.arg.url)) :
               InsertedAsSpecified(articles[i])
    /\ InsertedFileRecord =>
           LET target == LoadJsonFile(articleFiles, last.category)
           IN  InsertedAsSpecified(target[Len(target)])

-----------------------------------------------------------------------------
(* C22 *)

\* the order-preserving union of two lists of tags: acc without its
\* repetitions, then the tags of more that are not there yet
RECURSIVE UnionInOrder(_, _)
UnionInOrder(acc, more) ==
    IF more = <<>> THEN acc
    ELSE UnionInOrder(IF \E i \in 1..Len(acc) : acc[i] = Head(more)
                      THEN acc ELSE Append(acc, Head(more)),
                      Tail(more))

\* the tags C22 expects after the last call, existing being the tags stored
\* before it
MergedTags(existing) ==
    UnionInOrder(UnionInOrder(UnionInOrder(<<>>, existing), Get(last.arg, "tags", <<>>)),
                 last.tool_tags)

\* C22: after archive(record, category, extra_tags), on insert and on
\* update, the stored tags are the order-preserving union of the existing
\* tags, the record's tags and extra_tags, with no tag twice, in the
\* relational adapter and in the file-snapshot adapter.
C22_TagsMerged ==
    /\ (last.op = "archive_article" /\ last.ok /\ ~BlankArticleKey(last.arg)) =>
           LET url == Strip(last.arg.url)
               before == ArticlesWithUrl(pre.articles, url)
               existing == IF before = {} THEN <<>>
                           ELSE pre.articles[CHOOSE i \in before : TRUE].tags
           IN  \A i \in ArticlesWithUrl(articles, url) :
                   articles[i].tags = MergedTags(existing)
    /\ InsertedFileRecord =>
           LET target == LoadJsonFile(articleFiles, last.category)
           IN  Get(target[Len(target)], "tags", <<>>) = MergedTags(<<>>)

-----------------------------------------------------------------------------
(* C23 *)

\* the positions of the run at which the command cmd ended
Stages(cmd) == {i \in 1..Len(backup.run) : backup.run[i].cmd = cmd}

\* the positions at which cmd ended with success
Succeeded(cmd) == {i \in Stages(cmd) : backup.run[i].code = 0}

\* the positions at which the change check reported changes, and no change
ChangesReported == {i \in Succeeded(GitStatus) : backup.run[i].changes # {}}
NoChangeReported == {i \in Succeeded(GitStatus) : backup.run[i].changes = {}}

\* C23: in every run of backup_to_github a commit is recorded only after a
\* successful export and a change check that reported changes, a push is
\* attempted only after a successful commit of that run, and a change check
\* that reports no change ends the run, with no commit and no push.
C23_StageOrder ==
    /\ \A c \in Succeeded(GitCommit) :
           \E e \in Succeeded(ExportCall), d \in ChangesReported : e < d /\ d < c
    /\ \A p \in Stages(GitPush) : \E c \in Succeeded(GitCommit) : c < p
    /\ \A d \in NoChangeReported : d = Len(backup.run) /\ backup.pc = "idle"

\* a run that exported, found changes, committed and pushed
C23_Witness ==
    /\ backup.pc = "idle"
    /\ Succeeded(ExportCall) # {}
    /\ ChangesReported # {}
    /\ Succeeded(GitCommit) # {}
    /\ Succeeded(GitPush) # {}

-----------------------------------------------------------------------------
(* C24 *)

\* the command line at position i forces the push
Forced(i) ==
    \E k \in 1..Len(backup.run[i].cmd) :
        backup.run[i].cmd[k] \in {"--force", "-f", "--force-with-lease", "+master"}

\* C24: in one run of backup_to_github a rejected first push is followed by
\* exactly one pull with rebase and, only if that succeeds, by exactly one
\* more push; a run makes at most two push attempts, never a forced one, and
\* ends when the rebase or the second push fails.
C24_OneRetry ==
    LET pushes == Stages(GitPush)
        pulls == Stages(GitPull)
    IN  /\ Cardinality(pushes) <= 2
        /\ Cardinality(pulls) <= 1
        /\ \A i \in 1..Len(backup.run) : ~Forced(i)
        /\ \A i \in pulls : i - 1 \in pushes \ Succeeded(GitPush)
        /\ \A i, j \in pushes : i < j => j - 1 \in Succeeded(GitPull)
        /\ (backup.pc = "idle" /\ pushes \ Succeeded(GitPush) # {}) =>
               /\ Cardinality(pulls) = 1
               /\ Cardinality(pushes) = IF Succeeded(GitPull) # {} THEN 2 ELSE 1

\* a run whose first push was rejected and whose second push, after the
\* rebase, failed as well
C24_Witness ==
    /\ backup.pc = "idle"
    /\ Cardinality(Stages(GitPush)) = 2
    /\ Succeeded(GitPush) = {}
    /\ Succeeded(GitPull) # {}

-----------------------------------------------------------------------------
(* C25 *)

\* a run has ended in which every stage it reached succeeded
RunWithoutFailure ==
    /\ backup.pc = "idle"
    /\ backup.run # <<>>
    /\ \A i \in 1..Len(backup.run) : backup.run[i].code = 0

\* C25: a run of backup_to_github that begins while a committed snapshot is
\* not yet at origin (an earlier run committed it and failed to push it)
\* attempts to push it, also when the relational data has not changed since.
C25_UnpublishedCommitPushed ==
    (RunWithoutFailure /\ backup.unpublished) => Stages(GitPush) # {}

-----------------------------------------------------------------------------
(* C26 *)

\* the exports of the run in which the write of some snapshot file failed
WriteFailed == {i \in Stages(ExportCall) : backup.run[i].unsaved # {}}

\* C26: when the write of a snapshot file fails during the export stage,
\* export_data_to_json reports failure and the run of backup_to_github
\* records no commit and makes no push.
C26_WriteFailureStopsRun ==
    \A i \in WriteFailed :
        /\ backup.run[i].code # 0
        /\ Stages(GitCommit) = {}
        /\ Stages(GitPush) = {}

-----------------------------------------------------------------------------
(* C27 *)

\* the stages of the run that ended by a timeout or an exception of the
\* subprocess
Aborted == {i \in 1..Len(backup.run) : backup.run[i].code = 0 - 1}

\* C27: every run of backup_to_github terminates and returns to idle,
\* whatever the outcome of the export and of each git command (success,
\* non-zero exit, timeout, exception); a failed command ends the run it
\* belongs to and nothing else.
C27_RunTerminates == (backup.pc # "idle") ~> (backup.pc = "idle")

\* a run that is over after its pull with rebase timed out or raised
C27_Witness ==
    /\ backup.pc = "idle"
    /\ \E i \in Aborted : backup.run[i].cmd = GitPull

-----------------------------------------------------------------------------
(* C28 *)

\* the two calls of op that both found the key not stored at their lookup
\* and have both returned, when op was called exactly twice
Overlapped(op) ==
    LET calls == {s \in DOMAIN sessions : sessions[s].op = op}
    IN  IF /\ Cardinality(calls) = 2
           /\ \A s \in calls : sessions[s].pc = "done" /\ sessions[s].existing = <<>>
        THEN calls
        ELSE {}

\* the call that committed last
LastCommitted(calls) ==
    CHOOSE s \in calls : \A o \in calls : sessions[o].order <= sessions[s].order

\* two overlapping archive calls of a new Article left one row, both
\* returned True, and the row is the one of the call that committed last
ArticleLastWriteWins ==
    LET calls == Overlapped("archive_article")
    IN  calls # {} =>
            /\ Cardinality(ArticlesWithUrl(articles, UA)) = 1
            /\ \A s \in calls : sessions[s].ok
            /\ \A i \in ArticlesWithUrl(articles, UA) :
                   /\ articles[i].title = sessions[LastCommitted(calls)].arg.title
                   /\ articles[i].category = sessions[LastCommitted(calls)].category

\* the same for a Tool archived by url, without identifier
ToolLastWriteWins ==
    LET calls == Overlapped("archive_tool")
    IN  calls # {} =>
            /\ Cardinality(ToolsWithUrl(tools, UA)) = 1
            /\ \A s \in calls : sessions[s].ok
            /\ \A i \in ToolsWithUrl(tools, UA) :
                   /\ tools[i].name = sessions[LastCommitted(calls)].arg.name
                   /\ tools[i].category = sessions[LastCommitted(calls)].category

\* C28: when two relational archive calls for the same natural key, not
\* stored yet, interleave between their lookup and their commit, the store
\* ends with exactly one record for the key, both calls complete without
\* error and the stored fields are those of the call that committed last;
\* for Article by url and for Tool by url without identifier.
C28_LastWriteWins == ArticleLastWriteWins /\ ToolLastWriteWins

-----------------------------------------------------------------------------
(* C29 *)

\* the increment_article_view_count calls that found the url stored
Increments ==
    {s \in DOMAIN sessions :
        sessions[s].op = "increment_article" /\ sessions[s].existing # <<>>}

\* C29: under any interleaving of k increment_article_view_count calls on
\* one stored url, each suspended at its read and at its commit, every call
\* returns True and the final view_count is the initial value plus k.  The
\* record is inserted with view_count 0 and no archive call of these runs
\* supplies a view_count, so that the initial value is 0.
C29_NoLostIncrement ==
    (\A s \in Increments : sessions[s].pc = "done") =>
        /\ \A s \in Increments : sessions[s].ok
        /\ \A i \in ArticlesWithUrl(articles, UA) :
               articles[i].view_count = Cardinality(Increments)

-----------------------------------------------------------------------------
(* C30 *)

\* the url of the last call has surrounding whitespace and is not blank
Untrimmed(u) == Strip(u) # u /\ Strip(u) # <<>>

\* C30: the relational operations keyed by an Article url agree on the
\* normalisation of the key.  After archive_article_to_category succeeded
\* for a url u with surrounding whitespace, is_article_archived(u) is True;
\* increment_article_view_count(u) on that record returns True and raises
\* its view_count; delete_article_from_all_categories(u) removes the record,
\* and is_article_archived(u) is False afterwards.
C30_KeyNormalisation ==
    /\ (/\ last.op = "archive_article"
        /\ last.ok
        /\ Untrimmed(Get(last.arg, "url", <<>>)))
           => IsArticleArchived(articles, last.arg.url)
    /\ (/\ last.op = "increment_article"
        /\ Untrimmed(last.key)
        /\ HasUrl(pre.articles, Strip(last.key)))
           => /\ last.ok
              /\ RowWithUrl(articles, Strip(last.key)).view_count
                     = RowWithUrl(pre.articles, Strip(last.key)).view_count + 1
    /\ (/\ last.op = "delete_article"
        /\ Untrimmed(last.key)
        /\ HasUrl(pre.articles, Strip(last.key)))
           => /\ last.ok
              /\ ~HasUrl(articles, Strip(last.key))
              /\ ~IsArticleArchived(articles, last.key)

====
